---- MODULE Spec2Model ----
(***************************************************************************)
(* Google Maps lead scraper: the job store and HTTP handlers of server.js, *)
(* the pipeline runScrapeJob, the extraction engine scrapeGoogleMaps of    *)
(* scraper.js and the validator (removeIncomplete, normalize*,             *)
(* generateIceBreaker, removeDuplicates, validateAndClean).                *)
(*                                                                         *)
(* JavaScript strings that the code trims, lowercases, parses or matches   *)
(* are sequences of one-character strings; fixed texts that the code only  *)
(* copies (messages, status names) are TLA+ strings.                       *)
(***************************************************************************)
EXTENDS Integers, Sequences, FiniteSets, Bags, TLC

(***************************************************************************)
(* Bounds of the model                                                     *)
(***************************************************************************)
\* number of distinct listing urls the results page can show
MaxUrls == 2
\* how far the clock runs, in steps of half a sweep interval
MaxTicks == 7
\* length of the record lists handed to the validator
MaxRaw == 2
\* length of the texts handed to the normalizers
MaxLen == 4
\* length of the long result lists, one more than the preview shows
MaxResults == 21
\* largest number of items one list-view read returns
MaxPageItems == 2
\* number of listings of the long results page
MaxFeed == 5

(***************************************************************************)
(* Program constants                                                       *)
(***************************************************************************)
MinLeads == 1
MaxLeadsCap == 100
DefaultLeads == 20
EngineDefaultLeads == 100
maxScrollAttempts == 25
StagnationLimit == 5
PreviewSize == 20
RetentionMs == 3600000
SweepMs == 1800000

\* a JavaScript number is num / den; NaN has den = 0
NaN == [num |-> 0, den |-> 0]
Num(n) == [num |-> n, den |-> 1]
null == "null"

NoResultsMessage ==
    "No businesses found in this area. Please try a different category or broader location."

(***************************************************************************)
(* Strings                                                                 *)
(***************************************************************************)
Digits == <<"0", "1", "2", "3", "4", "5", "6", "7", "8", "9">>

IsDigit(c) == \E i \in 1..10 : Digits[i] = c

DigitVal(c) == (CHOOSE i \in 1..10 : Digits[i] = c) - 1

\* the characters \s matches, as far as the model's alphabet has them
IsSpace(c) == c \in {" ", "\t"}

\* String.prototype.toLowerCase on the model's alphabet
LowerChar(c) ==
    CASE c = "A" -> "a"
      [] c = "B" -> "b"
      [] c = "X" -> "x"
      [] OTHER -> c

toLowerCase(s) == [i \in 1..Len(s) |-> LowerChar(s[i])]

RECURSIVE trimStart(_)
trimStart(s) ==
    IF s # <<>> /\ IsSpace(Head(s)) THEN trimStart(Tail(s)) ELSE s

RECURSIVE trimEnd(_)
trimEnd(s) ==
    IF s # <<>> /\ IsSpace(s[Len(s)]) THEN trimEnd(SubSeq(s, 1, Len(s) - 1)) ELSE s

trim(s) == trimEnd(trimStart(s))

startsWith(s, p) == Len(s) >= Len(p) /\ SubSeq(s, 1, Len(p)) = p

\* JavaScript truthiness of a string: only the empty string is falsy
Truthy(s) == s # <<>>

\* a || b on strings
OrElse(a, b) == IF Truthy(a) THEN a ELSE b

\* parseInt(s, 10): leading whitespace, an optional sign, then the longest run
\* of digits; NaN when there is no digit
RECURSIVE DigitRun(_)
DigitRun(s) ==
    IF s # <<>> /\ IsDigit(Head(s)) THEN <<Head(s)>> \o DigitRun(Tail(s)) ELSE <<>>

RECURSIVE DigitsValue(_)
DigitsValue(ds) ==
    IF ds = <<>> THEN 0
    ELSE 10 * DigitsValue(SubSeq(ds, 1, Len(ds) - 1)) + DigitVal(ds[Len(ds)])

RECURSIVE Pow10(_)
Pow10(k) == IF k = 0 THEN 1 ELSE 10 * Pow10(k - 1)

parseInt(s) ==
    LET t    == trimStart(s)
        neg  == t # <<>> /\ Head(t) = "-"
        body == IF t # <<>> /\ Head(t) \in {"+", "-"} THEN Tail(t) ELSE t
        ds   == DigitRun(body)
    IN  IF ds = <<>> THEN NaN
        ELSE Num(IF neg THEN 0 - DigitsValue(ds) ELSE DigitsValue(ds))

\* parseFloat(s): leading whitespace, an optional sign, digits, an optional
\* "." and digits. The value is num / den; NaN when there is no digit.
\* (No exponent part: the model's alphabet has no "e".)
parseFloat(s) ==
    LET t     == trimStart(s)
        neg   == t # <<>> /\ Head(t) = "-"
        body  == IF t # <<>> /\ Head(t) \in {"+", "-"} THEN Tail(t) ELSE t
        ip    == DigitRun(body)
        rest  == SubSeq(body, Len(ip) + 1, Len(body))
        fp    == IF rest # <<>> /\ Head(rest) = "." THEN DigitRun(Tail(rest)) ELSE <<>>
        mag   == DigitsValue(ip \o fp)
    IN  IF ip = <<>> /\ fp = <<>> THEN NaN
        ELSE [num |-> IF neg THEN 0 - mag ELSE mag, den |-> Pow10(Len(fp))]

(***************************************************************************)
(* Validator (server.js 171-320)                                           *)
(***************************************************************************)
\* mutant of DedupKey: the texts are lowercased but not trimmed
DedupKey_NoTrim(biz) == toLowerCase(biz.name) \o <<"|">> \o toLowerCase(biz.address)

\* `${name.toLowerCase().trim()}|${address.toLowerCase().trim()}`
DedupKey(biz) ==
    trim(toLowerCase(biz.name)) \o <<"|">> \o trim(toLowerCase(biz.address))

RECURSIVE DedupFrom(_, _)
DedupFrom(businesses, seen) ==
    IF businesses = <<>> THEN <<>>
    ELSE LET biz == Head(businesses)
             key == DedupKey(biz)
         IN  IF key \in seen THEN DedupFrom(Tail(businesses), seen)
             ELSE <<biz>> \o DedupFrom(Tail(businesses), seen \cup {key})

removeDuplicates(businesses) == DedupFrom(businesses, {})

\* mutant of IsComplete: name and address are not trimmed before the test
IsComplete_NoTrim(biz) == Truthy(biz.name) /\ Truthy(biz.address)

IsComplete(biz) ==
    /\ Truthy(biz.name) /\ Len(trim(biz.name)) > 0
    /\ Truthy(biz.address) /\ Len(trim(biz.address)) > 0

\* mutant of removeIncomplete: a record without a phone number is dropped too
removeIncomplete_NeedsPhone(businesses) ==
    SelectSeq(businesses, LAMBDA biz : IsComplete(biz) /\ Truthy(biz.phone))

removeIncomplete(businesses) == SelectSeq(businesses, IsComplete)

\* the characters /[^\d+\-() ]/ leaves in place
IsPhoneChar(c) == IsDigit(c) \/ c \in {"+", "-", "(", ")", " "}

\* replace(/\s+/g, ' ')
RECURSIVE CollapseSpaces(_)
CollapseSpaces(s) ==
    IF s = <<>> THEN <<>>
    ELSE IF IsSpace(Head(s))
         THEN <<" ">> \o CollapseSpaces(trimStart(s))
         ELSE <<Head(s)>> \o CollapseSpaces(Tail(s))

\* mutant of normalizePhone: no trim after the spaces are collapsed
normalizePhone_NoFinalTrim(phone) ==
    IF ~Truthy(phone) THEN <<>>
    ELSE CollapseSpaces(SelectSeq(trim(phone), IsPhoneChar))

normalizePhone(phone) ==
    IF ~Truthy(phone) THEN <<>>
    ELSE trim(CollapseSpaces(SelectSeq(trim(phone), IsPhoneChar)))

HttpPrefix == <<"h", "t", "t", "p", ":", "/", "/">>
HttpsPrefix == <<"h", "t", "t", "p", "s", ":", "/", "/">>

\* replace(/\/+$/, '')
RECURSIVE StripTrailingSlashes(_)
StripTrailingSlashes(s) ==
    IF s # <<>> /\ s[Len(s)] = "/" THEN StripTrailingSlashes(SubSeq(s, 1, Len(s) - 1))
    ELSE s

normalizeUrl(url) ==
    IF ~Truthy(url) THEN <<>>
    ELSE LET t == trim(url)
             cleaned == IF Truthy(t) /\ ~startsWith(t, HttpPrefix) /\ ~startsWith(t, HttpsPrefix)
                        THEN HttpsPrefix \o t
                        ELSE t
         IN  StripTrailingSlashes(cleaned)

normalizeEmail(email) ==
    IF ~Truthy(email) THEN <<>> ELSE toLowerCase(trim(email))

\* a number is truthy unless it is 0 or NaN
NumTruthy(x) == x.den # 0 /\ x.num # 0

\* x >= y, x > y and x < y on numbers; every comparison with NaN is false
NumGeq(x, y) == x.den # 0 /\ y.den # 0 /\ x.num * y.den >= y.num * x.den
NumGreater(x, y) == x.den # 0 /\ y.den # 0 /\ x.num * y.den > y.num * x.den
NumLess(x, y) == x.den # 0 /\ y.den # 0 /\ x.num * y.den < y.num * x.den

IceBreakerBranch(rating, reviews) ==
    IF NumTruthy(rating) /\ NumGeq(rating, [num |-> 45, den |-> 10]) /\ NumGreater(reviews, Num(20))
    THEN "praise"
    ELSE IF NumTruthy(rating) /\ NumLess(rating, Num(4)) THEN "improve"
    ELSE IF NumTruthy(reviews) /\ NumLess(reviews, Num(10)) THEN "fewReviews"
    ELSE "solid"

\* the message is the concatenation of these pieces, the first of them a
\* fixed non-empty text; the sixth is the profile sentence, which quotes the
\* rating and the review count in the branches that mention them
generateIceBreaker(biz) ==
    LET name       == IF Truthy(biz.name) THEN biz.name ELSE <<"t", "h", "e", "r", "e">>
        hasWebsite == Truthy(biz.website)
        rating     == parseFloat(biz.rating)
        reviews    == parseInt(biz.reviews)
        branch     == IceBreakerBranch(rating, reviews)
        cat        == IF Truthy(biz.category) THEN biz.category
                      ELSE <<"b", "u", "s", "i", "n", "e", "s", "s", "e", "s">>
    IN  << "Hey ", name, ", I just went through your Google Business Profile while researching ",
           cat, " in your area. ",
           [branch |-> branch,
            rating |-> IF branch \in {"praise", "improve"} THEN rating ELSE NaN,
            reviews |-> IF branch \in {"praise", "fewReviews"} THEN reviews ELSE NaN],
           IF hasWebsite THEN "You've got a good foundation with your current website, ..."
           ELSE "However, I noticed you don't have a website linked to your profile yet. ...",
           "I specialize in helping ", cat, " like yours dominate local search ..." >>

Field(biz, f) == IF f \in DOMAIN biz THEN biz[f] ELSE <<>>

\* mutant of CleanBiz: the ice breaker is generated from the record as scraped
CleanBiz_IceBreakerFromRaw(biz) ==
    [category   |-> trim(Field(biz, "category")),
     name       |-> trim(Field(biz, "name")),
     address    |-> trim(Field(biz, "address")),
     phone      |-> normalizePhone(Field(biz, "phone")),
     email      |-> normalizeEmail(Field(biz, "email")),
     website    |-> normalizeUrl(Field(biz, "website")),
     rating     |-> Field(biz, "rating"),
     reviews    |-> Field(biz, "reviews"),
     iceBreaker |-> generateIceBreaker(biz)]

CleanBiz(biz) ==
    LET cleanedBiz ==
            [category |-> trim(Field(biz, "category")),
             name     |-> trim(Field(biz, "name")),
             address  |-> trim(Field(biz, "address")),
             phone    |-> normalizePhone(Field(biz, "phone")),
             email    |-> normalizeEmail(Field(biz, "email")),
             website  |-> normalizeUrl(Field(biz, "website")),
             rating   |-> Field(biz, "rating"),
             reviews  |-> Field(biz, "reviews")]
    IN  [f \in DOMAIN cleanedBiz \cup {"iceBreaker"} |->
            IF f = "iceBreaker" THEN generateIceBreaker(cleanedBiz) ELSE cleanedBiz[f]]

validateAndClean(businesses) ==
    LET complete == removeIncomplete(businesses)
        cleaned  == [i \in 1..Len(complete) |-> CleanBiz(complete[i])]
    IN  removeDuplicates(cleaned)

(***************************************************************************)
(* Numbers to text and back                                                *)
(***************************************************************************)
\* String(n) for an integer n
RECURSIVE NatToString(_)
NatToString(n) ==
    IF n < 10 THEN <<Digits[n + 1]>>
    ELSE NatToString(n \div 10) \o <<Digits[(n % 10) + 1]>>

NumberToString(n) == IF n < 0 THEN <<"-">> \o NatToString(0 - n) ELSE NatToString(n)

Min(a, b) == IF a < b THEN a ELSE b
Max(a, b) == IF a > b THEN a ELSE b

\* Math.min(Math.max(parseInt(text, 10) || dflt, 1), 100)
ClampLeads(text, dflt) ==
    LET parsed == parseInt(text)
        wanted == IF NumTruthy(parsed) THEN parsed.num ELSE dflt
    IN  Min(Max(wanted, MinLeads), MaxLeadsCap)

\* the clamp of the page's submit handler (excelGenerator.js 192-201):
\* parseInt, then 1 for NaN or a value below 1, and 100 for a value above 100
ClientClamp(text) ==
    LET leads == parseInt(text)
    IN  IF leads.den = 0 \/ leads.num < 1 THEN 1
        ELSE IF leads.num > 100 THEN 100
        ELSE leads.num

\* Math.round((current / total) * 100) for current, total > 0
RoundPercent(current, total) == (200 * current + total) \div (2 * total)

(***************************************************************************)
(* The environment of a run: what the page, the driver and uuidv4 can      *)
(* deliver. It is fixed by Init and never changes.                         *)
(***************************************************************************)
Urls == 1..MaxUrls

\* the name and address texts a listing can show: a listing without an
\* address, two listings that differ only in letter case and surrounding
\* whitespace of the name, and one at another address
Listings ==
    { << <<"A">>, <<>> >>,
      << <<"A">>, <<"x">> >>,
      << <<"a", " ">>, <<"x">> >>,
      << <<"A">>, <<"y">> >> }

\* what one list-view container yields (scraper.js 99-123), before the
\* category of the query is attached
ListItem(url, name, address) ==
    [name |-> name, url |-> url, address |-> address,
     rating |-> <<>>, reviews |-> <<>>, phone |-> <<>>, website |-> <<>>]

\* the results pages the model considers: one listing per url
Feeds ==
    { { ListItem(u, listing[u][1], listing[u][2]) : u \in Urls } :
        listing \in [Urls -> Listings] }

\* what one detail-page read yields (scraper.js 187-205)
NoDetails == [phone |-> <<>>, website |-> <<>>, address |-> <<>>]
DetailReads ==
    { NoDetails,
      [phone |-> <<"1", " ", " ", "2">>, website |-> <<"w", "/">>, address |-> <<"x">>] }

\* the texts of the `leads` field of a request body
LeadsTexts ==
    { <<>>, <<"a">>, <<"0">>, <<"-", "3">>, <<"1">>, <<"1", "5", "0">> }

\* request bodies: complete ones with every `leads` text, and bodies with
\* one required field empty or missing
Body(category, state, country, leads) ==
    [category |-> category, state |-> state, country |-> country, leads |-> leads]

CompleteBodies == { Body(<<"B">>, <<"K">>, <<"I">>, leads) : leads \in LeadsTexts }

RequestBodies ==
    CompleteBodies
    \cup { Body(<<>>, <<"K">>, <<"I">>, <<"1">>),
           Body(<<"B">>, <<>>, <<"I">>, <<"1">>),
           Body(<<"B">>, <<"K">>, <<>>, <<"1">>) }

LaunchError == "Failed to launch the browser process!"
PageError == "Protocol error (Target.createTarget): Target closed."
NavigationError == "Navigation timeout of 90000 ms exceeded"
EvaluateError == "Execution context was destroyed, most likely because of a navigation."
CloseError == "Protocol error (Browser.close): Target closed."
ExcelError == "EACCES: permission denied"

(***************************************************************************)
(* State                                                                   *)
(***************************************************************************)
VARIABLES
    env,    \* [uuids, feed, details]: what uuidv4, the page and the detail pages can deliver
    jobs,   \* the keys of the Map `jobs`; the value of key id is the job object job[id]
    job,    \* the job objects ever created, by id (an object outlives its Map entry)
    run,    \* per job: where its runScrapeJob / scrapeGoogleMaps call stands, and its locals
    hist,   \* per job: every value assigned to job.status and to job.progress, in order,
            \*   and the status the job had when the cleanup interval deleted its key
    now,    \* Date.now(), in ms since the server started
    nextSweep, \* when the cleanup interval fires next
    resp,   \* the last HTTP response sent
    call,   \* a direct call of a function the validator exports: [fn, arg, done, result]
    page    \* the page in the user's browser: the variables and the cards of its script,
            \*   its timers and its requests in flight

vars == <<env, jobs, job, run, hist, now, nextSweep, resp, call, page>>

Msg(kind, a, b, name, text) == [kind |-> kind, a |-> a, b |-> b, name |-> name, text |-> text]

NoResp == [op |-> "none", id |-> null, code |-> 0, body |-> null, results |-> <<>>]

NoCall == [fn |-> "none", arg |-> <<>>, done |-> FALSE, result |-> <<>>]

\* the page as its script leaves it when it has loaded (excelGenerator.js
\* 163-164): no job and no timer (0 stands for null), the form card shown.
\* timers are the intervals that are active, polls the bag of the status
\* requests in flight (each the job id of its url), submits the number of scrape
\* requests in flight, timeouts the pending setTimeout calls in the order
\* they were made, progress what the progress card displays, resultsOf the
\* job whose results the results card lists and location the job whose
\* report window.location was last set to; created counts the job ids the
\* server has answered with and nextTimer the ids setInterval has returned;
\* ended is history, the jobs one of whose polls failed or was answered
\* complete or error.
LoadedPage ==
    [currentJobId |-> 0, pollInterval |-> 0, card |-> "form", submitDisabled |-> FALSE,
     timers |-> {}, polls |-> EmptyBag, submits |-> 0, timeouts |-> <<>>,
     progress |-> "Starting...",
     errorMessage |-> "", resultsOf |-> 0, location |-> 0,
     created |-> 0, nextTimer |-> 0, ended |-> {}]

\* a progress event; 0 stands for an absent current / total / count
Event(message, current, total, count) ==
    [message |-> message, current |-> current, total |-> total, count |-> count]

(***************************************************************************)
(* runScrapeJob: writes to the job object (server.js 103-155)              *)
(***************************************************************************)
\* c is a job object with its history: [job, hist]
SetStatus(c, status, message) ==
    [job  |-> [c.job EXCEPT !.status = status, !.message = message],
     hist |-> [c.hist EXCEPT !.status = Append(@, status)]]

SetProgress(c, p) ==
    [job  |-> [c.job EXCEPT !.progress = p],
     hist |-> [c.hist EXCEPT !.progress = Append(@, p)]]

\* the onProgress callback (server.js 113-121)
onProgress(c, progress) ==
    LET c1 == [c EXCEPT !.job.message = progress.message]
        c2 == IF progress.total # 0 /\ progress.current # 0
              THEN SetProgress(c1, RoundPercent(progress.current, progress.total))
              ELSE c1
    IN  IF progress.count # 0
        THEN [c2 EXCEPT !.job.resultCount = progress.count]
        ELSE c2

\* mutant of CatchError: a fixed text instead of the exception's message
CatchError_Generic(c, message) ==
    LET c1 == SetStatus(c, "error", Msg("Error: ", 0, 0, <<>>, "Scraping failed"))
    IN  [c1 EXCEPT !.job.error = "Scraping failed"]

\* the catch block (server.js 149-154)
CatchError(c, message) ==
    LET c1 == SetStatus(c, "error", Msg("Error: ", 0, 0, <<>>, message))
    IN  [c1 EXCEPT !.job.error = message]

OutputPath(id) == id

\* mutant of ValidateAndGenerate: the pipeline is suspended in status
\* validating, before the report is announced
ValidateAndGenerate_Suspends(c, rawResults) ==
    LET c1 == SetStatus(c, "validating", Msg("Validating and cleaning data...", 0, 0, <<>>, ""))
        c2 == SetProgress(c1, 90)
        cleanedResults == validateAndClean(rawResults)
    IN  [c2 EXCEPT !.job.results = cleanedResults,
                   !.job.resultCount = Len(cleanedResults)]

\* mutant of ValidateAndGenerate: the status goes from scraping to generating
ValidateAndGenerate_SkipsValidating(c, rawResults) ==
    LET c2 == SetProgress(c, 90)
        cleanedResults == validateAndClean(rawResults)
        c3 == [c2 EXCEPT !.job.results = cleanedResults,
                         !.job.resultCount = Len(cleanedResults)]
        c4 == SetStatus(c3, "generating", Msg("Generating Excel file...", 0, 0, <<>>, ""))
    IN  SetProgress(c4, 95)

\* after scrapeGoogleMaps returned rawResults, up to the await of generateExcel
\* (server.js 124-140)
ValidateAndGenerate(c, rawResults) ==
    LET c1 == SetStatus(c, "validating", Msg("Validating and cleaning data...", 0, 0, <<>>, ""))
        c2 == SetProgress(c1, 90)
        cleanedResults == validateAndClean(rawResults)
        c3 == [c2 EXCEPT !.job.results = cleanedResults,
                         !.job.resultCount = Len(cleanedResults)]
        c4 == SetStatus(c3, "generating", Msg("Generating Excel file...", 0, 0, <<>>, ""))
    IN  SetProgress(c4, 95)

\* mutant of Complete: the path of the report is not recorded
Complete_NoFilePath(c) ==
    LET c2 == SetStatus(c, "complete", c.job.message)
        c3 == SetProgress(c2, 100)
    IN  [c3 EXCEPT !.job.message =
            Msg("Successfully scraped ", Len(c.job.results), 0, <<>>, " businesses!")]

\* after generateExcel returned (server.js 141-148)
Complete(c) ==
    LET c1 == [c EXCEPT !.job.filePath = OutputPath(c.job.id)]
        c2 == SetStatus(c1, "complete", c1.job.message)
        c3 == SetProgress(c2, 100)
    IN  [c3 EXCEPT !.job.message =
            Msg("Successfully scraped ", Len(c.job.results), 0, <<>>, " businesses!")]

(***************************************************************************)
(* scrapeGoogleMaps (scraper.js 12-235)                                    *)
(*                                                                         *)
(* f is the frame of one job: [run, job, hist], the locals of its call and *)
(* the job object its onProgress callback writes to.  Each action below is *)
(* the code between two awaits.                                            *)
(***************************************************************************)
Frame(j) == [run |-> run[j], job |-> job[j], hist |-> hist[j]]

\* mutant of Commit: the progress is kept in one place for all jobs
Commit_SharedProgress(j, f) ==
    /\ run' = [run EXCEPT ![j] = f.run]
    /\ job' = [k \in DOMAIN job |->
                 IF k = j THEN f.job ELSE [job[k] EXCEPT !.progress = f.job.progress]]
    /\ hist' = [hist EXCEPT ![j] = f.hist]

Commit(j, f) ==
    /\ run' = [run EXCEPT ![j] = f.run]
    /\ job' = [job EXCEPT ![j] = f.job]
    /\ hist' = [hist EXCEPT ![j] = f.hist]

Emit(f, progress) ==
    LET c == onProgress([job |-> f.job, hist |-> f.hist], progress)
    IN  [f EXCEPT !.job = c.job, !.hist = c.hist]

\* an exception reaches runScrapeJob: its catch block, and the call is over
Rejected(f, message) ==
    LET c == CatchError([job |-> f.job, hist |-> f.hist], message)
    IN  [run |-> [f.run EXCEPT !.pc = "done", !.pending = message],
         job |-> c.job, hist |-> c.hist]

\* mutant of EngineThrow: an exception leaves the call without the finally
\* block closing the browser
EngineThrow_NoClose(f, message) == Rejected(f, message)

\* an exception inside the try block (scraper.js 226-234): it is logged and
\* rethrown, and the finally block closes the browser if there is one
EngineThrow(f, message) ==
    IF f.run.browser
    THEN [f EXCEPT !.run.pc = "close", !.run.pending = message]
    ELSE Rejected(f, message)

\* a driver operation `op` fails with `message` outside the per-item catch
Fault(f, op, message) == EngineThrow([f EXCEPT !.run.faults = @ \cup {op}], message)

\* `return finalResults` (scraper.js 225), then the finally block
EngineReturn(f) == [f EXCEPT !.run.pc = "close", !.run.pending = null]

\* mutant of StartItem: the event carries the 0-based index
StartItem_ZeroBased(f) ==
    LET n == Len(f.run.listingLinks)
        i == f.run.i
    IN  IF i < n
        THEN LET currentItem == f.run.listingLinks[i + 1]
                 g == Emit(f, Event(Msg("Checking ", i, n, currentItem.name, ""), i, n, 0))
             IN  [g EXCEPT !.run.pc = "detailNav"]
        ELSE EngineReturn(
                 Emit(f, Event(Msg("Scraping complete! ", Len(f.run.finalResults), 0, <<>>, " leads found."),
                               0, 0, Len(f.run.finalResults))))

\* the head of the enrichment loop and, past its end, the last progress
\* event and the return (scraper.js 173-181, 219-225)
StartItem(f) ==
    LET n == Len(f.run.listingLinks)
        i == f.run.i
    IN  IF i < n
        THEN LET currentItem == f.run.listingLinks[i + 1]
                 g == Emit(f, Event(Msg("Checking ", i + 1, n, currentItem.name, ""), i + 1, n, 0))
             IN  [g EXCEPT !.run.pc = "detailNav"]
        ELSE EngineReturn(
                 Emit(f, Event(Msg("Scraping complete! ", Len(f.run.finalResults), 0, <<>>, " leads found."),
                               0, 0, Len(f.run.finalResults))))

\* mutant of Slice: no truncation
Slice_NoCap(fastResults, MAX_LEADS) == fastResults

\* fastResults.slice(0, MAX_LEADS)
Slice(fastResults, MAX_LEADS) == SubSeq(fastResults, 1, Min(MAX_LEADS, Len(fastResults)))

\* mutant of AfterCollection: an empty candidate list is not an error
AfterCollection_NoThrow(f) ==
    LET listingLinks == Slice(f.run.fastResults, f.run.MAX_LEADS)
        g == [f EXCEPT !.run.listingLinks = listingLinks,
                       !.run.i = 0,
                       !.run.finalResults = <<>>]
    IN  StartItem(Emit(g, Event(Msg("Updating details for ", Len(listingLinks), 0, <<>>, " leads..."),
                                0, Len(listingLinks), 0)))

\* after the scroll loop (scraper.js 159-173)
AfterCollection(f) ==
    LET listingLinks == Slice(f.run.fastResults, f.run.MAX_LEADS)
    IN  IF Len(listingLinks) = 0
        THEN EngineThrow(f, NoResultsMessage)
        ELSE LET g == [f EXCEPT !.run.listingLinks = listingLinks,
                                !.run.i = 0,
                                !.run.finalResults = <<>>]
             IN  StartItem(Emit(g, Event(Msg("Updating details for ", Len(listingLinks), 0, <<>>, " leads..."),
                                         0, Len(listingLinks), 0)))

\* while (scrollAttempts < maxScrollAttempts) (scraper.js 76)
LoopHead(f) ==
    IF f.run.scrollAttempts < maxScrollAttempts
    THEN [f EXCEPT !.run.pc = "scroll"]
    ELSE AfterCollection(f)

\* mutant of Merge: an item whose url is known replaces the entry of that url
RECURSIVE Merge_Replaces(_, _)
Merge_Replaces(fastResults, pageData) ==
    IF pageData = <<>> THEN fastResults
    ELSE LET item == Head(pageData)
             found == \E k \in 1..Len(fastResults) : fastResults[k].url = item.url
         IN  Merge_Replaces(IF found
                            THEN [k \in 1..Len(fastResults) |->
                                    IF fastResults[k].url = item.url THEN item ELSE fastResults[k]]
                            ELSE Append(fastResults, item),
                            Tail(pageData))

\* pageData.forEach(item => { if (!fastResults.find(...)) fastResults.push(item) })
RECURSIVE Merge(_, _)
Merge(fastResults, pageData) ==
    IF pageData = <<>> THEN fastResults
    ELSE LET item == Head(pageData)
             found == \E k \in 1..Len(fastResults) : fastResults[k].url = item.url
         IN  Merge(IF found THEN fastResults ELSE Append(fastResults, item), Tail(pageData))

\* the list-view read attaches the category of the query (scraper.js 113-122)
WithCategory(item, cat) ==
    [category |-> cat, name |-> item.name, url |-> item.url, address |-> item.address,
     rating |-> item.rating, reviews |-> item.reviews, phone |-> item.phone,
     website |-> item.website]

\* the detail merge (scraper.js 207-212)
Enriched(currentItem, details) ==
    [currentItem EXCEPT !.phone = OrElse(details.phone, currentItem.phone),
                        !.website = OrElse(details.website, currentItem.website),
                        !.address = OrElse(details.address, currentItem.address)]

\* history: where a call counts the passes of its scroll loop that have read
\* the list view (run.iterations), one more pass has
Counted(f) ==
    IF "iterations" \in DOMAIN f.run THEN [f EXCEPT !.run.iterations = @ + 1] ELSE f

\* mutant of Collected: the stagnation counter is never incremented
Collected_NeverStagnates(f, pageData) ==
    LET fastResults == Merge(f.run.fastResults, pageData)
        currentCount == Len(fastResults)
        g == Emit([f EXCEPT !.run.fastResults = fastResults],
                  Event(Msg("Found ", currentCount, 0, <<>>, " business listings..."), 0, 0, currentCount))
    IN  IF currentCount >= f.run.MAX_LEADS THEN AfterCollection(g)
        ELSE [g EXCEPT !.run.scrollAttempts = 0,
                       !.run.previousCount = currentCount,
                       !.run.pc = "isEnd"]

\* mutant of Collected: a pass that adds a candidate does not reset the
\* stagnation counter
Collected_NoReset(f, pageData) ==
    LET fastResults == Merge(f.run.fastResults, pageData)
        currentCount == Len(fastResults)
        g == Emit([Counted(f) EXCEPT !.run.fastResults = fastResults],
                  Event(Msg("Found ", currentCount, 0, <<>>, " business listings..."), 0, 0, currentCount))
    IN  IF currentCount >= f.run.MAX_LEADS THEN AfterCollection(g)
        ELSE IF currentCount = f.run.previousCount
        THEN IF f.run.scrollAttempts + 1 >= StagnationLimit
             THEN AfterCollection([g EXCEPT !.run.scrollAttempts = @ + 1])
             ELSE [g EXCEPT !.run.scrollAttempts = @ + 1,
                            !.run.previousCount = currentCount,
                            !.run.pc = "isEnd"]
        ELSE [g EXCEPT !.run.previousCount = currentCount,
                       !.run.pc = "isEnd"]

\* after one pass of the scroll loop read pageData (scraper.js 128-150)
Collected(f, pageData) ==
    LET fastResults == Merge(f.run.fastResults, pageData)
        currentCount == Len(fastResults)
        g == Emit([Counted(f) EXCEPT !.run.fastResults = fastResults],
                  Event(Msg("Found ", currentCount, 0, <<>>, " business listings..."), 0, 0, currentCount))
    IN  IF currentCount >= f.run.MAX_LEADS THEN AfterCollection(g)
        ELSE IF currentCount = f.run.previousCount
        THEN IF f.run.scrollAttempts + 1 >= StagnationLimit
             THEN AfterCollection([g EXCEPT !.run.scrollAttempts = @ + 1])
             ELSE [g EXCEPT !.run.scrollAttempts = @ + 1,
                            !.run.previousCount = currentCount,
                            !.run.pc = "isEnd"]
        ELSE [g EXCEPT !.run.scrollAttempts = 0,
                       !.run.previousCount = currentCount,
                       !.run.pc = "isEnd"]

\* the locals of a call of runScrapeJob that has not reached its first await.
\* The last five fields are history: browsers launched and closed, the kinds
\* of page navigated to, the driver and report operations that failed
\* outside the per-item catch, and the (1-based) candidates whose enrichment
\* failed.
NewRun(maxLeads) ==
    [pc |-> "start", browser |-> FALSE,
     MAX_LEADS |-> ClampLeads(NumberToString(maxLeads), EngineDefaultLeads),
     fastResults |-> <<>>, previousCount |-> 0, scrollAttempts |-> 0,
     listingLinks |-> <<>>, i |-> 0, finalResults |-> <<>>, pending |-> null,
     launches |-> 0, closes |-> 0, navs |-> {}, faults |-> {}, failed |-> {}]

\* runScrapeJob up to its first await, puppeteer.launch (server.js 104-108,
\* scraper.js 13-25)
StartJob(c) ==
    LET c1 == SetStatus(c, "scraping", Msg("Starting Google Maps scraper...", 0, 0, <<>>, ""))
        f  == [run |-> NewRun(c.job.maxLeads), job |-> c1.job, hist |-> c1.hist]
        g  == Emit(f, Event(Msg("Launching global scraper engine...", 0, 0, <<>>, ""), 0, 0, 0))
    IN  [g EXCEPT !.run.pc = "launch", !.run.launches = @ + 1]

(***************************************************************************)
(* Initial state                                                           *)
(***************************************************************************)
NoJobs == [id \in {} |-> 0]

InitStore ==
    /\ jobs = {}
    /\ job = NoJobs
    /\ run = NoJobs
    /\ hist = NoJobs
    /\ now = 0
    /\ nextSweep = SweepMs
    /\ resp = NoResp
    /\ page = LoadedPage
    /\ call = NoCall

\* the ids uuidv4 can return
Uuids == {"job-1"}

Init ==
    /\ \E feed \in Feeds :
          env = [uuids |-> Uuids, feed |-> feed, details |-> DetailReads]
    /\ InitStore

(***************************************************************************)
(* POST /api/scrape (server.js 24-59)                                      *)
(***************************************************************************)
NewJob(id, category, state, country, maxLeads) ==
    [id |-> id, category |-> category, state |-> state, country |-> country,
     maxLeads |-> maxLeads, status |-> "starting", progress |-> 0,
     message |-> Msg("Initializing scraper...", 0, 0, <<>>, ""),
     resultCount |-> 0, results |-> <<>>, filePath |-> null, error |-> null,
     createdAt |-> now]

Extend(fn, id, value) == [x \in DOMAIN fn \cup {id} |-> IF x = id THEN value ELSE fn[x]]

\* mutant of PostScrape: the required fields are not checked
PostScrape_NoValidation(category, state, country, leads) ==
    \E id \in env.uuids \ DOMAIN job :
        LET created == NewJob(id, category, state, country, ClampLeads(leads, DefaultLeads))
            f == StartJob([job  |-> created,
                           hist |-> [status |-> <<"starting">>, progress |-> <<0>>,
                                     reapedIn |-> null]])
        IN  /\ jobs' = jobs \cup {id}
            /\ job' = Extend(job, id, f.job)
            /\ run' = Extend(run, id, f.run)
            /\ hist' = Extend(hist, id, f.hist)
            /\ resp' = [op |-> "scrape", id |-> id, code |-> 200, body |-> id,
                        results |-> <<>>]
            /\ UNCHANGED <<env, now, nextSweep, call, page>>

PostScrape(category, state, country, leads) ==
    IF ~Truthy(category) \/ ~Truthy(state) \/ ~Truthy(country)
    THEN /\ resp' = [op |-> "scrape", id |-> null, code |-> 400, body |-> null, results |-> <<>>]
         /\ UNCHANGED <<env, jobs, job, run, hist, now, nextSweep, call, page>>
    ELSE \E id \in env.uuids \ DOMAIN job :
            LET maxLeads == ClampLeads(leads, DefaultLeads)
                created  == NewJob(id, category, state, country, maxLeads)
                f == StartJob([job  |-> created,
                               hist |-> [status |-> <<"starting">>, progress |-> <<0>>,
                                         reapedIn |-> null]])
            IN  /\ jobs' = jobs \cup {id}
                /\ job' = Extend(job, id, f.job)
                /\ run' = Extend(run, id, f.run)
                /\ hist' = Extend(hist, id, f.hist)
                /\ resp' = [op |-> "scrape", id |-> id, code |-> 200, body |-> id,
                             results |-> <<>>]
                /\ UNCHANGED <<env, now, nextSweep, call, page>>

(***************************************************************************)
(* The awaits of scrapeGoogleMaps and runScrapeJob, one action each        *)
(***************************************************************************)
Step(j, f) == Commit(j, f) /\ UNCHANGED <<env, jobs, now, nextSweep, resp, call, page>>

\* puppeteer.launch (scraper.js 25-36)
Launch(j, ok) ==
    /\ run[j].pc = "launch"
    /\ Step(j, IF ok THEN [Frame(j) EXCEPT !.run.browser = TRUE, !.run.pc = "newPage"]
               ELSE Fault(Frame(j), "launch", LaunchError))

\* newPage, setUserAgent, setViewport (scraper.js 38-42)
NewPage(j, ok) ==
    /\ run[j].pc = "newPage"
    /\ Step(j, IF ok
               THEN [Emit(Frame(j), Event(Msg("Searching for ", 0, 0, job[j].category, ""), 0, 0, 0))
                        EXCEPT !.run.pc = "goto"]
               ELSE Fault(Frame(j), "newPage", PageError))

\* page.goto(searchUrl) and the settle delay (scraper.js 45-46)
Goto(j, ok) ==
    /\ run[j].pc = "goto"
    /\ LET f == [Frame(j) EXCEPT !.run.navs = @ \cup {"search"}]
       IN  Step(j, IF ok THEN [f EXCEPT !.run.pc = "consent"]
                   ELSE Fault(f, "goto", NavigationError))

\* the cookie-consent block: no button, a button clicked, or a failure that
\* its own catch swallows (scraper.js 49-68); then the locals of the scroll
\* loop (scraper.js 71-76)
Consent(j, outcome) ==
    /\ run[j].pc = "consent"
    /\ outcome \in {"absent", "clicked", "failed"}
    /\ LET f == Emit(Frame(j), Event(Msg("Detecting Google Maps results layout...", 0, 0, <<>>, ""), 0, 0, 0))
       IN  Step(j, LoopHead([f EXCEPT !.run.previousCount = 0,
                                      !.run.scrollAttempts = 0,
                                      !.run.fastResults = <<>>]))

\* the scroll of the feed and its delay (scraper.js 78-91)
ScrollFeed(j, ok) ==
    /\ run[j].pc = "scroll"
    /\ Step(j, IF ok THEN [Frame(j) EXCEPT !.run.pc = "read"]
               ELSE Fault(Frame(j), "scroll", EvaluateError))

PageReads ==
    UNION { [1..n -> env.feed] : n \in 0..MaxPageItems }

\* the list-view read and what follows it up to the next await
\* (scraper.js 94-150)
ReadList(j, pageData) ==
    /\ run[j].pc = "read"
    /\ Step(j, Collected(Frame(j),
                         [k \in 1..Len(pageData) |-> WithCategory(pageData[k], job[j].category)]))

ReadListFails(j) ==
    /\ run[j].pc = "read"
    /\ Step(j, Fault(Frame(j), "read", EvaluateError))

\* the end-of-results read (scraper.js 152-157)
CheckEnd(j, isEnd) ==
    /\ run[j].pc = "isEnd"
    /\ Step(j, IF isEnd THEN AfterCollection(Frame(j)) ELSE LoopHead(Frame(j)))

CheckEndFails(j) ==
    /\ run[j].pc = "isEnd"
    /\ Step(j, Fault(Frame(j), "isEnd", EvaluateError))

\* mutant of KeepListData: a candidate whose enrichment fails is dropped
KeepListData_Drops(f) ==
    StartItem([f EXCEPT !.run.failed = @ \cup {f.run.i + 1},
                        !.run.i = @ + 1])

\* the catch of one enrichment pass (scraper.js 213-216)
KeepListData(f) ==
    StartItem([f EXCEPT !.run.finalResults = Append(@, f.run.listingLinks[f.run.i + 1]),
                        !.run.failed = @ \cup {f.run.i + 1},
                        !.run.i = @ + 1])

\* page.goto(currentItem.url) and its delay (scraper.js 184-185)
DetailNav(j, ok) ==
    /\ run[j].pc = "detailNav"
    /\ LET f == [Frame(j) EXCEPT !.run.navs = @ \cup {"detail"}]
       IN  Step(j, IF ok THEN [f EXCEPT !.run.pc = "detailRead"] ELSE KeepListData(f))

\* the detail read and the merge (scraper.js 187-212)
DetailRead(j, details) ==
    /\ run[j].pc = "detailRead"
    /\ LET f == Frame(j)
           currentItem == f.run.listingLinks[f.run.i + 1]
       IN  Step(j, StartItem([f EXCEPT !.run.finalResults = Append(@, Enriched(currentItem, details)),
                                       !.run.i = @ + 1]))

DetailReadFails(j) ==
    /\ run[j].pc = "detailRead"
    /\ Step(j, KeepListData(Frame(j)))

\* browser.close() in the finally block (scraper.js 230-234), then back in
\* runScrapeJob: the catch block, or validation up to the await of
\* generateExcel
Close(j, ok) ==
    /\ run[j].pc = "close"
    /\ LET f == [Frame(j) EXCEPT !.run.closes = @ + 1]
           c == [job |-> f.job, hist |-> f.hist]
       IN  Step(j, IF ~ok THEN Rejected([f EXCEPT !.run.faults = @ \cup {"close"}], CloseError)
                   ELSE IF f.run.pending # null THEN Rejected(f, f.run.pending)
                   ELSE LET d == ValidateAndGenerate(c, f.run.finalResults)
                        IN  [run |-> [f.run EXCEPT !.pc = "excel"], job |-> d.job, hist |-> d.hist])

\* generateExcel (server.js 140-154)
GenerateExcel(j, ok) ==
    /\ run[j].pc = "excel"
    /\ LET f == Frame(j)
           c == Complete([job |-> f.job, hist |-> f.hist])
       IN  Step(j, IF ok THEN [run |-> [f.run EXCEPT !.pc = "done"], job |-> c.job, hist |-> c.hist]
                   ELSE Rejected([f EXCEPT !.run.faults = @ \cup {"generateExcel"}], ExcelError))

Next ==
    \/ \E body \in CompleteBodies :
          PostScrape(body.category, body.state, body.country, body.leads)
    \/ \E j \in DOMAIN run, ok \in BOOLEAN : Launch(j, ok)
    \/ \E j \in DOMAIN run, ok \in BOOLEAN : NewPage(j, ok)
    \/ \E j \in DOMAIN run, ok \in BOOLEAN : Goto(j, ok)
    \/ \E j \in DOMAIN run, outcome \in {"absent", "clicked", "failed"} : Consent(j, outcome)
    \/ \E j \in DOMAIN run, ok \in BOOLEAN : ScrollFeed(j, ok)
    \/ \E j \in DOMAIN run, pageData \in PageReads : ReadList(j, pageData)
    \/ \E j \in DOMAIN run : ReadListFails(j)
    \/ \E j \in DOMAIN run, isEnd \in BOOLEAN : CheckEnd(j, isEnd)
    \/ \E j \in DOMAIN run : CheckEndFails(j)
    \/ \E j \in DOMAIN run, ok \in BOOLEAN : DetailNav(j, ok)
    \/ \E j \in DOMAIN run, details \in env.details : DetailRead(j, details)
    \/ \E j \in DOMAIN run : DetailReadFails(j)
    \/ \E j \in DOMAIN run, ok \in BOOLEAN : Close(j, ok)
    \/ \E j \in DOMAIN run, ok \in BOOLEAN : GenerateExcel(j, ok)

Spec == Init /\ [][Next]_vars

(***************************************************************************)
(* The job store seen from outside: lookups, the clock and the reaper      *)
(***************************************************************************)
\* the ids a client can ask for: every id uuidv4 can return, and another one
RequestIds == Uuids \cup {"no-such-job"}

\* mutant of Preview: the whole list
Preview_Whole(results) == results

\* job.results.slice(0, 20) (server.js 77)
Preview(results) == SubSeq(results, 1, Min(PreviewSize, Len(results)))

\* GET /api/status/:jobId (server.js 65-80): the status code, the status and
\* the results of the snapshot
StatusResponse(id) ==
    IF id \notin jobs
    THEN [code |-> 404, body |-> null, results |-> <<>>]
    ELSE [code |-> 200, body |-> job[id].status,
          results |-> IF job[id].status = "complete" THEN Preview(job[id].results) ELSE <<>>]

GetStatus(id) ==
    /\ resp' = [op |-> "status", id |-> id,
                code |-> StatusResponse(id).code, body |-> StatusResponse(id).body,
                results |-> StatusResponse(id).results]
    /\ UNCHANGED <<env, jobs, job, run, hist, now, nextSweep, call, page>>

\* mutant of DownloadResponse: every known job gets its file
DownloadResponse_AnyStatus(id) ==
    IF id \notin jobs
    THEN [code |-> 404, body |-> null]
    ELSE [code |-> 200, body |-> job[id].filePath]

\* GET /api/download/:jobId (server.js 86-98): the status code and the file
\* handed to res.download
DownloadResponse(id) ==
    IF id \notin jobs
    THEN [code |-> 404, body |-> null]
    ELSE IF job[id].status # "complete" \/ job[id].filePath = null
    THEN [code |-> 400, body |-> null]
    ELSE [code |-> 200, body |-> job[id].filePath]

Download(id) ==
    /\ resp' = [op |-> "download", id |-> id,
                code |-> DownloadResponse(id).code, body |-> DownloadResponse(id).body,
                results |-> <<>>]
    /\ UNCHANGED <<env, jobs, job, run, hist, now, nextSweep, call, page>>

\* the clock advances by half a sweep interval, unless the cleanup timer is due
Granule == SweepMs \div 2

Tick ==
    /\ now < nextSweep
    /\ now + Granule <= MaxTicks * Granule
    /\ now' = now + Granule
    /\ UNCHANGED <<env, jobs, job, run, hist, nextSweep, resp, call, page>>

\* mutant of Expired: twice the retention window
Expired_TwoWindows(id) == now - job[id].createdAt > 2 * RetentionMs

\* mutant of Expired: a job whose pipeline is still running is kept
Expired_UnlessRunning(id) ==
    /\ now - job[id].createdAt > RetentionMs
    /\ job[id].status \in {"complete", "error"}

\* the cleanup interval (server.js 158-165)
\* mutant of Expired: a job is reaped as soon as its age reaches the window
Expired_AtWindow(id) == now - job[id].createdAt >= RetentionMs

Expired(id) == now - job[id].createdAt > RetentionMs

Sweep ==
    /\ now >= nextSweep
    /\ jobs' = { id \in jobs : ~Expired(id) }
    /\ hist' = [id \in DOMAIN hist |->
                  IF id \in jobs /\ Expired(id)
                  THEN [hist[id] EXCEPT !.reapedIn = job[id].status]
                  ELSE hist[id]]
    /\ nextSweep' = nextSweep + SweepMs
    /\ UNCHANGED <<env, job, run, now, resp, call, page>>

\* one listing, no detail data: the store does not depend on what is scraped
StoreInit ==
    /\ env = [uuids |-> Uuids,
              feed |-> { ListItem(1, <<"A">>, <<"x">>) },
              details |-> {NoDetails}]
    /\ InitStore

NextStore ==
    \/ \E body \in RequestBodies :
          PostScrape(body.category, body.state, body.country, body.leads)
    \/ \E id \in RequestIds : GetStatus(id)
    \/ \E id \in RequestIds : Download(id)
    \/ Tick
    \/ Sweep
    \/ \E j \in DOMAIN run, ok \in BOOLEAN : Launch(j, ok)
    \/ \E j \in DOMAIN run, ok \in BOOLEAN : NewPage(j, ok)
    \/ \E j \in DOMAIN run, ok \in BOOLEAN : Goto(j, ok)
    \/ \E j \in DOMAIN run, outcome \in {"absent", "clicked", "failed"} : Consent(j, outcome)
    \/ \E j \in DOMAIN run, ok \in BOOLEAN : ScrollFeed(j, ok)
    \/ \E j \in DOMAIN run, pageData \in PageReads : ReadList(j, pageData)
    \/ \E j \in DOMAIN run : ReadListFails(j)
    \/ \E j \in DOMAIN run, isEnd \in BOOLEAN : CheckEnd(j, isEnd)
    \/ \E j \in DOMAIN run : CheckEndFails(j)
    \/ \E j \in DOMAIN run, ok \in BOOLEAN : DetailNav(j, ok)
    \/ \E j \in DOMAIN run, details \in env.details : DetailRead(j, details)
    \/ \E j \in DOMAIN run : DetailReadFails(j)
    \/ \E j \in DOMAIN run, ok \in BOOLEAN : Close(j, ok)
    \/ \E j \in DOMAIN run, ok \in BOOLEAN : GenerateExcel(j, ok)

StoreSpec == StoreInit /\ [][NextStore]_vars

(***************************************************************************)
(* The validator on its own: what the engine can return and what a caller  *)
(* of the exported functions can pass (server.js 320)                      *)
(***************************************************************************)
\* all texts of at most n characters of the alphabet
Texts(alphabet, n) == UNION { [1..k -> alphabet] : k \in 0..n }

\* all lists of at most n elements of the set
Lists(elements, n) == UNION { [1..k -> elements] : k \in 0..n }

\* phone texts: whitespace, a tab, a letter, a digit and a dash
PhoneTexts == Texts({" ", "\t", "a", "1", "-"}, MaxLen)

\* website texts: nothing, a blank, or a scheme, followed by letters,
\* slashes and blanks
UrlTexts ==
    { pre \o rest : pre \in {<<>>, <<" ">>, HttpPrefix, HttpsPrefix},
                    rest \in Texts({"w", "/", " "}, MaxLen) }

\* a record as scrapeGoogleMaps returns it (scraper.js 113-122, 207-212)
Raw(url, name, address, website, rating, reviews) ==
    [category |-> <<"B">>, name |-> name, url |-> url, address |-> address,
     rating |-> rating, reviews |-> reviews, phone |-> <<>>, website |-> website]

\* names and addresses that are empty, blank, or differ in letter case and
\* surrounding whitespace only; a blank and a real website
RawFields ==
    { << <<"A">>, <<"x">>, <<>> >>,
      << <<"a", " ">>, <<"x">>, <<>> >>,
      << <<" ", "A">>, <<"X", " ">>, <<" ">> >>,
      << <<"A">>, <<"y">>, <<"w", "/">> >>,
      << <<>>, <<"x">>, <<>> >>,
      << <<" ">>, <<"x">>, <<>> >>,
      << <<"A">>, <<>>, <<>> >>,
      << <<"A">>, <<" ">>, <<>> >> }

\* lists of such records, the k-th with url k
RawLists ==
    { [k \in 1..Len(fields) |-> Raw(k, fields[k][1], fields[k][2], fields[k][3], <<>>, <<>>)] :
        fields \in Lists(RawFields, MaxRaw) }

\* rating and review texts around the thresholds of generateIceBreaker
RatingTexts ==
    { <<>>, <<"a">>, <<"0">>, <<"3", ".", "9">>, <<"4">>, <<"4", ".", "4">>,
      <<"4", ".", "5">>, <<"5">> }

ReviewTexts == { <<>>, <<"0">>, <<"9">>, <<"1", "0">>, <<"2", "0">>, <<"2", "1">> }

RatedLists ==
    { << Raw(1, <<"A">>, <<"x">>, <<>>, rating, reviews) >> :
        rating \in RatingTexts, reviews \in ReviewTexts }

\* n records with the names "1" .. "n" at one address
LongList(n) == [k \in 1..n |-> Raw(k, NatToString(k), <<"x">>, <<>>, <<>>, <<>>)]

\* records for removeDuplicates, told apart by their phone field; the last
\* two have different names and addresses and the same key
DedupFields ==
    { << <<"A">>, <<"x">> >>, << <<"a", " ">>, <<"x">> >>, << <<" ", "A">>, <<"X">> >>,
      << <<"A">>, <<"y">> >>, << <<>>, <<"x">> >>,
      << <<"A", "|", "x">>, <<>> >>, << <<"A">>, <<"x", "|">> >> }

DedupLists ==
    { [k \in 1..Len(fields) |->
          [name |-> fields[k][1], address |-> fields[k][2], phone |-> NatToString(k)]] :
        fields \in Lists(DedupFields, MaxRaw + 1) }

\* what scrapeGoogleMaps can return: a non-empty list
EngineResults ==
    (RawLists \ {<<>>}) \cup RatedLists \cup { LongList(n) : n \in 1..MaxResults }

DirectCall(fn, arg) == [fn |-> fn, arg |-> arg, done |-> FALSE, result |-> <<>>]

DirectCalls ==
    { DirectCall("normalizePhone", s) : s \in PhoneTexts }
    \cup { DirectCall("normalizeUrl", s) : s \in UrlTexts }
    \cup { DirectCall("removeDuplicates", l) : l \in DedupLists }
    \cup { DirectCall("validateAndClean", l) : l \in RawLists \cup RatedLists }

\* the frame of a job whose engine has processed its last candidate and is
\* about to return finalResults (scraper.js 219-225)
ReturningFrame(id, finalResults) ==
    LET n  == Len(finalResults)
        c0 == [job  |-> NewJob(id, <<"B">>, <<"K">>, <<"I">>, MaxLeadsCap),
               hist |-> [status |-> <<"starting">>, progress |-> <<0>>, reapedIn |-> null]]
        f0 == StartJob(c0)
        f1 == [f0 EXCEPT !.run.browser = TRUE,
                         !.run.navs = {"search", "detail"},
                         !.run.fastResults = finalResults,
                         !.run.previousCount = n,
                         !.run.listingLinks = finalResults,
                         !.run.i = n,
                         !.run.finalResults = finalResults]
        f2 == Emit(f1, Event(Msg("Found ", n, 0, <<>>, " business listings..."), 0, 0, n))
        f3 == Emit(f2, Event(Msg("Checking ", n, n, finalResults[n].name, ""), n, n, 0))
    IN  StartItem(f3)

ValidatorEnv == [uuids |-> Uuids, feed |-> {}, details |-> {NoDetails}]

ValidatorInit ==
    /\ env = ValidatorEnv
    /\ now = 0
    /\ nextSweep = SweepMs
    /\ resp = NoResp
    /\ page = LoadedPage
    /\ \/ /\ call = NoCall
          /\ \E id \in Uuids, finalResults \in EngineResults :
                LET f == ReturningFrame(id, finalResults)
                IN  /\ jobs = {id}
                    /\ job = Extend(NoJobs, id, f.job)
                    /\ run = Extend(NoJobs, id, f.run)
                    /\ hist = Extend(NoJobs, id, f.hist)
       \/ /\ call \in DirectCalls
          /\ jobs = {}
          /\ job = NoJobs
          /\ run = NoJobs
          /\ hist = NoJobs

Returns(fn, result) ==
    /\ call.fn = fn
    /\ ~call.done
    /\ call' = [call EXCEPT !.done = TRUE, !.result = result]
    /\ UNCHANGED <<env, jobs, job, run, hist, now, nextSweep, resp, page>>

CallNormalizePhone == Returns("normalizePhone", normalizePhone(call.arg))

CallNormalizeUrl == Returns("normalizeUrl", normalizeUrl(call.arg))

CallRemoveDuplicates == Returns("removeDuplicates", removeDuplicates(call.arg))

CallValidateAndClean == Returns("validateAndClean", validateAndClean(call.arg))

ValidatorNext ==
    \/ CallNormalizePhone
    \/ CallNormalizeUrl
    \/ CallRemoveDuplicates
    \/ CallValidateAndClean
    \/ \E j \in DOMAIN run, ok \in BOOLEAN : Close(j, ok)
    \/ \E j \in DOMAIN run, ok \in BOOLEAN : GenerateExcel(j, ok)
    \/ \E id \in RequestIds : GetStatus(id)
    \/ \E id \in RequestIds : Download(id)

ValidatorSpec == ValidatorInit /\ [][ValidatorNext]_vars

(***************************************************************************)
(* The detail merge on its own: scraper.js and the stealth engine          *)
(* (src/unnamed/part_004)                                                  *)
(***************************************************************************)
\* { ...lead, ...info } (part_004 216): every field of info replaces the
\* field of the same name
StealthEnriched(lead, info) ==
    [f \in DOMAIN lead \cup DOMAIN info |-> IF f \in DOMAIN info THEN info[f] ELSE lead[f]]

\* what the list view of scraper.js yields for one listing: address, rating
\* and review count can be missing; phone and website always are
\* (scraper.js 113-122)
ListViewItems ==
    { [category |-> <<"B">>, name |-> <<"A">>, url |-> 1, address |-> address,
       rating |-> rating, reviews |-> reviews, phone |-> <<>>, website |-> <<>>] :
        address \in {<<>>, <<"x">>},
        rating \in {<<>>, <<"4", ".", "5">>},
        reviews \in {<<>>, <<"2", "1">>} }

\* the list view of the stealth engine never has an address (part_004 92-101)
StealthListViewItems == { item \in ListViewItems : item.address = <<>> }

\* what the detail read of scraper.js yields (scraper.js 187-205)
DetailTexts ==
    { [phone |-> phone, website |-> website, address |-> address] :
        phone \in {<<>>, <<"1">>},
        website \in {<<>>, <<"w">>},
        address \in {<<>>, <<" ">>, <<"y">>} }

\* what the detail read of the stealth engine yields (part_004 190-214)
StealthDetailTexts ==
    { [address |-> address, phone |-> phone, website |-> website,
       rating |-> rating, reviews |-> reviews] :
        address \in {<<>>, <<"y">>},
        phone \in {<<>>, <<"1">>},
        website \in {<<>>, <<"w">>},
        rating \in {<<>>, <<"4">>},
        reviews \in {<<>>, <<"9">>} }

MergeCalls ==
    { DirectCall("Enriched", <<item, details>>) :
        item \in ListViewItems, details \in DetailTexts }
    \cup { DirectCall("StealthEnriched", <<lead, info>>) :
              lead \in StealthListViewItems, info \in StealthDetailTexts }

MergeInit ==
    /\ env = ValidatorEnv
    /\ jobs = {}
    /\ job = NoJobs
    /\ run = NoJobs
    /\ hist = NoJobs
    /\ now = 0
    /\ nextSweep = SweepMs
    /\ resp = NoResp
    /\ page = LoadedPage
    /\ call \in MergeCalls

CallEnriched == Returns("Enriched", Enriched(call.arg[1], call.arg[2]))

CallStealthEnriched == Returns("StealthEnriched", StealthEnriched(call.arg[1], call.arg[2]))

MergeNext ==
    \/ CallEnriched
    \/ CallStealthEnriched

MergeSpec == MergeInit /\ [][MergeNext]_vars

(***************************************************************************)
(* The scroll-and-collect loop on its own (scraper.js 70-170): a call of   *)
(* scrapeGoogleMaps from the head of its loop to the end of collection,    *)
(* with the containers of the results page as the input of each read       *)
(***************************************************************************)
\* a container of the results page: the url of its place link (0: it has
\* none), its name text and its address line
Container(link, name, address) == [link |-> link, name |-> name, address |-> address]

\* the callback of the list-view read: only a container with a place link
\* and a name yields an item (scraper.js 99-125)
ExtractList(items) ==
    LET kept == SelectSeq(items, LAMBDA item : item.link # 0 /\ Truthy(item.name))
    IN  [k \in 1..Len(kept) |-> ListItem(kept[k].link, kept[k].name, kept[k].address)]

\* a long results page: MaxFeed listings in document order, of which a read
\* sees the first n that are loaded
LongPage == [k \in 1..MaxFeed |-> Container(k, <<"A">>, <<"x">>)]

LongPageViews == { SubSeq(LongPage, 1, n) : n \in 0..MaxFeed }

\* a short results page whose containers come and go between reads: url 1
\* under two names, url 2, a container without a place link and one
\* without a name
ShortPage ==
    { Container(1, <<"A">>, <<"x">>), Container(1, <<"B">>, <<"x">>),
      Container(2, <<"A">>, <<"y">>), Container(0, <<"A">>, <<"x">>),
      Container(2, <<>>, <<"y">>) }

ShortPageViews == Lists(ShortPage, MaxPageItems)

\* the values of maxLeads the scroll loop is studied with
ScrollCaps == {1, 3, MaxLeadsCap}

\* the frame of a call that is at the head of its scroll loop for the first
\* time (scraper.js 12-76), counting its passes from here on
AtLoopHead(id, maxLeads) ==
    LET c0 == [job  |-> NewJob(id, <<"B">>, <<"K">>, <<"I">>, maxLeads),
               hist |-> [status |-> <<"starting">>, progress |-> <<0>>, reapedIn |-> null]]
        f0 == StartJob(c0)
        f1 == Emit([f0 EXCEPT !.run.browser = TRUE],
                   Event(Msg("Searching for ", 0, 0, c0.job.category, ""), 0, 0, 0))
        f2 == Emit([f1 EXCEPT !.run.navs = @ \cup {"search"}],
                   Event(Msg("Detecting Google Maps results layout...", 0, 0, <<>>, ""), 0, 0, 0))
        f3 == LoopHead([f2 EXCEPT !.run.previousCount = 0,
                                  !.run.scrollAttempts = 0,
                                  !.run.fastResults = <<>>])
    IN  [f3 EXCEPT !.run = [x \in DOMAIN f3.run \cup {"iterations"} |->
                              IF x = "iterations" THEN 0 ELSE f3.run[x]]]

ScrollInit ==
    /\ now = 0
    /\ nextSweep = SweepMs
    /\ resp = NoResp
    /\ page = LoadedPage
    /\ call = NoCall
    /\ \E views \in {LongPageViews, ShortPageViews} :
          env = [uuids |-> Uuids,
                 feed |-> UNION { { ExtractList(v)[k] : k \in 1..Len(ExtractList(v)) } : v \in views },
                 details |-> {NoDetails},
                 views |-> views]
    /\ \E id \in Uuids, maxLeads \in ScrollCaps :
          LET f == AtLoopHead(id, maxLeads)
          IN  /\ jobs = {id}
              /\ job = Extend(NoJobs, id, f.job)
              /\ run = Extend(NoJobs, id, f.run)
              /\ hist = Extend(NoJobs, id, f.hist)

\* the list-view read of a page given by its containers (scraper.js 94-150)
Viewed(j, items) ==
    LET pageData == ExtractList(items)
    IN  Collected(Frame(j),
                  [k \in 1..Len(pageData) |-> WithCategory(pageData[k], job[j].category)])

ReadView(j, items) == run[j].pc = "read" /\ Step(j, Viewed(j, items))

\* job j is inside its scroll loop, suspended at one of the loop's awaits
InLoop(j) == j \in DOMAIN run /\ run[j].pc \in {"scroll", "read", "isEnd"}

\* every step of the scroll loop of job j
LoopStep(j) ==
    /\ j \in DOMAIN run
    /\ \/ \E ok \in BOOLEAN : ScrollFeed(j, ok)
       \/ \E items \in env.views : ReadView(j, items)
       \/ ReadListFails(j)
       \/ \E isEnd \in BOOLEAN : CheckEnd(j, isEnd)
       \/ CheckEndFails(j)

ScrollNext ==
    \/ \E j \in DOMAIN run, ok \in BOOLEAN : ScrollFeed(j, ok)
    \/ \E j \in DOMAIN run, items \in env.views : ReadView(j, items)
    \/ \E j \in DOMAIN run : ReadListFails(j)
    \/ \E j \in DOMAIN run, isEnd \in BOOLEAN : CheckEnd(j, isEnd)
    \/ \E j \in DOMAIN run : CheckEndFails(j)

ScrollSpec == ScrollInit /\ [][ScrollNext]_vars

\* Every awaited driver call of the loop eventually returns or fails: weak
\* fairness of LoopStep(j), which is enabled exactly when InLoop(j) holds.
FairScrollSpec ==
    /\ ScrollInit
    /\ [][ScrollNext]_vars
    /\ \A j \in Uuids : []<>(~InLoop(j)) \/ []<><<LoopStep(j)>>_vars

\* every step of the pipeline of job j
PipelineStep(j) ==
    /\ j \in DOMAIN run
    /\ \/ \E ok \in BOOLEAN : Launch(j, ok)
       \/ \E ok \in BOOLEAN : NewPage(j, ok)
       \/ \E ok \in BOOLEAN : Goto(j, ok)
       \/ \E outcome \in {"absent", "clicked", "failed"} : Consent(j, outcome)
       \/ \E ok \in BOOLEAN : ScrollFeed(j, ok)
       \/ \E pageData \in PageReads : ReadList(j, pageData)
       \/ ReadListFails(j)
       \/ \E isEnd \in BOOLEAN : CheckEnd(j, isEnd)
       \/ CheckEndFails(j)
       \/ \E ok \in BOOLEAN : DetailNav(j, ok)
       \/ \E details \in env.details : DetailRead(j, details)
       \/ DetailReadFails(j)
       \/ \E ok \in BOOLEAN : Close(j, ok)
       \/ \E ok \in BOOLEAN : GenerateExcel(j, ok)

(***************************************************************************)
(* Two jobs in flight: uuidv4 can return two ids, and the awaits of the    *)
(* two calls of runScrapeJob resume in any order                           *)
(***************************************************************************)
TwoUuids == {"job-1", "job-2"}

\* the requests the two jobs are created with
TwoJobBodies == { Body(<<"B">>, <<"K">>, <<"I">>, leads) : leads \in {<<>>, <<"1">>} }

\* one listing and one detail page that adds a phone number
ConcurrentInit ==
    /\ env = [uuids |-> TwoUuids,
              feed |-> { ListItem(1, <<"A">>, <<"x">>) },
              details |-> { [phone |-> <<"1">>, website |-> <<>>, address |-> <<>>] }]
    /\ InitStore

ConcurrentNext ==
    \/ \E body \in TwoJobBodies :
          PostScrape(body.category, body.state, body.country, body.leads)
    \/ \E j \in DOMAIN run : PipelineStep(j)

ConcurrentSpec == ConcurrentInit /\ [][ConcurrentNext]_vars

\* termination does not depend on the texts of the listings: one results page
FairInit ==
    /\ env = [uuids |-> Uuids,
              feed |-> { ListItem(u, <<"A">>, <<"x">>) : u \in Urls },
              details |-> DetailReads]
    /\ InitStore

\* job j is suspended at an await
Awaiting(j) == j \in DOMAIN run /\ run[j].pc # "done"

\* a step of the pipeline is possible exactly when the job is at an await
AwaitingIsEnabled ==
    \A j \in Uuids : Awaiting(j) <=> ENABLED <<PipelineStep(j)>>_vars

\* Every awaited driver or report operation eventually returns or fails:
\* weak fairness of PipelineStep(j), written with Awaiting(j) in the place of
\* ENABLED <<PipelineStep(j)>>_vars (AwaitingIsEnabled is an invariant).
FairSpec ==
    /\ FairInit
    /\ [][Next]_vars
    /\ \A j \in Uuids : []<>(~Awaiting(j)) \/ []<><<PipelineStep(j)>>_vars

(***************************************************************************)
(* The stealth engine (src/unnamed/part_004): scrapeGoogleMaps with the    *)
(* local-search view first and the full map view as its fallback, called   *)
(* by runScrapeJob.  Each action is the code between two awaits.           *)
(***************************************************************************)
StealthDefaultLeads == 20
StealthScans == 15
StealthStagnationLimit == 3

StealthNoResultsMessage ==
    "Google is blocking access or returned 0 results. Try a simpler search like 'Bakeries Kerala'."

\* a card of the local-search view: the url of its place link (0: none), its
\* name text, its rating and its review count
Card(link, name, rating, reviews) ==
    [link |-> link, name |-> name, rating |-> rating, reviews |-> reviews]

\* what the model's local-search page can show
LocalCards ==
    { Card(1, <<"A">>, <<"4">>, <<"9">>), Card(1, <<"B">>, <<>>, <<>>),
      Card(2, <<"A">>, <<>>, <<>>), Card(0, <<"A">>, <<>>, <<>>),
      Card(2, <<>>, <<>>, <<>>) }

\* a place link of the full map view: its url and its aria-label
Anchor(link, label) == [link |-> link, label |-> label]

MapAnchors == { Anchor(1, <<"A">>), Anchor(1, <<"B">>), Anchor(2, <<>>), Anchor(3, <<"A">>) }

\* items.push(...) of the local-search read: a card yields an item if it has
\* a name and a place url that no earlier item of the same read has
\* (part_004 81-103)
RECURSIVE ScanCards(_, _, _)
ScanCards(cards, items, cat) ==
    IF cards = <<>> THEN items
    ELSE LET card == Head(cards)
             keep == /\ Truthy(card.name)
                     /\ card.link # 0
                     /\ \A k \in 1..Len(items) : items[k].url # card.link
         IN  ScanCards(Tail(cards),
                       IF keep
                       THEN Append(items,
                                   [category |-> cat, name |-> card.name, url |-> card.link,
                                    address |-> <<>>, rating |-> card.rating,
                                    reviews |-> card.reviews, phone |-> <<>>, website |-> <<>>])
                       ELSE items,
                       cat)

\* the read of the map layout: a place link yields an item if it has a label
\* and a url that no earlier item of the same read has (part_004 143-161)
RECURSIVE ScanAnchors(_, _, _)
ScanAnchors(anchors, items, cat) ==
    IF anchors = <<>> THEN items
    ELSE LET a == Head(anchors)
             keep == /\ Truthy(a.label)
                     /\ \A k \in 1..Len(items) : items[k].url # a.link
         IN  ScanAnchors(Tail(anchors),
                         IF keep
                         THEN Append(items,
                                     [category |-> cat, name |-> a.label, url |-> a.link,
                                      address |-> <<>>, rating |-> <<>>, reviews |-> <<>>,
                                      phone |-> <<>>, website |-> <<>>])
                         ELSE items,
                         cat)

\* the locals of a call of the stealth engine that has not reached its first
\* await.  The last six fields are history: the kinds of page navigated to,
\* the views read, the number of candidates at the end of the collection
\* loop and the number of items of the map read (<<>>: not there yet), the
\* browsers closed and the operations that failed.
StealthRun(maxLeads) ==
    [pc |-> "start", browser |-> FALSE,
     MAX_LEADS |-> ClampLeads(NumberToString(maxLeads), StealthDefaultLeads),
     collectedLeads |-> <<>>, previousCount |-> 0, stagnating |-> 0, i |-> 0,
     finalLeads |-> <<>>, detailedResults |-> <<>>, pending |-> null,
     navs |-> {}, reads |-> {}, loopEnd |-> <<>>, mapYield |-> <<>>,
     closes |-> 0, faults |-> {}]

\* runScrapeJob up to its first await, puppeteer.launch (server.js 104-108,
\* part_004 10-23)
StealthStartJob(c) ==
    LET c1 == SetStatus(c, "scraping", Msg("Starting Google Maps scraper...", 0, 0, <<>>, ""))
        f  == [run |-> StealthRun(c.job.maxLeads), job |-> c1.job, hist |-> c1.hist]
        g  == Emit(f, Event(Msg("Starting Stealth Engine...", 0, 0, <<>>, ""), 0, 0, 0))
    IN  [g EXCEPT !.run.pc = "launch"]

\* the head of the enrichment loop and, past its end, the last progress
\* event and the return (part_004 177-185, 223-224)
StealthStartItem(f) ==
    LET n == Len(f.run.finalLeads)
        i == f.run.i
    IN  IF i < n
        THEN LET lead == f.run.finalLeads[i + 1]
                 g == Emit(f, Event(Msg("Opening profile ", i + 1, n, lead.name, ""), i + 1, n, 0))
             IN  [g EXCEPT !.run.pc = "profileNav"]
        ELSE EngineReturn(
                 Emit(f, Event(Msg("Successfully scraped ", Len(f.run.detailedResults), 0, <<>>, " businesses!"),
                               0, 0, Len(f.run.detailedResults))))

\* the no-results test and the start of enrichment (part_004 168-177)
NoLeadsCheck(f) ==
    IF Len(f.run.collectedLeads) = 0
    THEN EngineThrow(f, StealthNoResultsMessage)
    ELSE LET finalLeads == Slice(f.run.collectedLeads, f.run.MAX_LEADS)
             g == [f EXCEPT !.run.finalLeads = finalLeads,
                            !.run.i = 0,
                            !.run.detailedResults = <<>>]
         IN  StealthStartItem(Emit(g, Event(Msg("Updating details for ", Len(finalLeads), 0, <<>>, " leads..."),
                                            0, Len(finalLeads), 0)))

\* mutant of AfterScans: no fallback to the full map view
AfterScans_NoFallback(f) ==
    NoLeadsCheck([f EXCEPT !.run.loopEnd = <<Len(f.run.collectedLeads)>>])

\* after the collection loop: the fallback to the full map view up to its
\* navigation, or straight to the no-results test (part_004 135-139, 168)
AfterScans(f) ==
    LET g == [f EXCEPT !.run.loopEnd = <<Len(f.run.collectedLeads)>>]
    IN  IF Len(g.run.collectedLeads) = 0
        THEN [Emit(g, Event(Msg("Retrying with global map view...", 0, 0, <<>>, ""), 0, 0, 0))
                 EXCEPT !.run.pc = "mapGoto"]
        ELSE NoLeadsCheck(g)

\* for (let i = 0; i < 15; i++) (part_004 75)
ScanHead(f) ==
    IF f.run.i < StealthScans THEN [f EXCEPT !.run.pc = "scan"] ELSE AfterScans(f)

\* after one pass of the collection loop read `data` (part_004 107-128)
Scanned(f, data) ==
    LET collectedLeads == Merge(f.run.collectedLeads, data)
        count == Len(collectedLeads)
        g == Emit([f EXCEPT !.run.collectedLeads = collectedLeads, !.run.reads = @ \cup {"local"}],
                  Event(Msg("Found ", count, 0, <<>>, " businesses..."), 0, 0, count))
    IN  IF count >= f.run.MAX_LEADS THEN AfterScans(g)
        ELSE IF count = f.run.previousCount
        THEN IF f.run.stagnating + 1 >= StealthStagnationLimit
             THEN AfterScans([g EXCEPT !.run.stagnating = @ + 1])
             ELSE [g EXCEPT !.run.stagnating = @ + 1,
                            !.run.previousCount = count,
                            !.run.pc = "scrollBy"]
        ELSE [g EXCEPT !.run.stagnating = 0,
                       !.run.previousCount = count,
                       !.run.pc = "scrollBy"]

\* puppeteer.launch (part_004 23-34)
StealthLaunch(j, ok) ==
    /\ run[j].pc = "launch"
    /\ Step(j, IF ok THEN [Frame(j) EXCEPT !.run.browser = TRUE, !.run.pc = "newPage"]
               ELSE Fault(Frame(j), "launch", LaunchError))

\* newPage, setViewport (part_004 36-39)
StealthNewPage(j, ok) ==
    /\ run[j].pc = "newPage"
    /\ Step(j, IF ok
               THEN [Emit(Frame(j), Event(Msg("Contacting Google for ", 0, 0, job[j].category, ""), 0, 0, 0))
                        EXCEPT !.run.pc = "goto"]
               ELSE Fault(Frame(j), "newPage", PageError))

\* page.goto(searchUrl), the local-search view (part_004 42-43)
StealthGoto(j, ok) ==
    /\ run[j].pc = "goto"
    /\ LET f == [Frame(j) EXCEPT !.run.navs = @ \cup {"local"}]
       IN  Step(j, IF ok THEN [f EXCEPT !.run.pc = "consent"]
                   ELSE Fault(f, "goto", NavigationError))

\* the consent block, whose failures its own catch swallows, then the locals
\* of the collection loop (part_004 46-75)
StealthConsent(j, outcome) ==
    /\ run[j].pc = "consent"
    /\ outcome \in {"absent", "clicked", "failed"}
    /\ LET f == [Frame(j) EXCEPT !.run.collectedLeads = <<>>,
                                 !.run.previousCount = 0,
                                 !.run.stagnating = 0,
                                 !.run.i = 0]
       IN  Step(j, ScanHead(Emit(f, Event(Msg("Scanning live results...", 0, 0, <<>>, ""), 0, 0, 0))))

\* the read of the local-search view and what follows it up to the next
\* await (part_004 76-128)
Scan(j, cards) ==
    /\ run[j].pc = "scan"
    /\ Step(j, Scanned(Frame(j), ScanCards(cards, <<>>, job[j].category)))

ScanFails(j) ==
    /\ run[j].pc = "scan"
    /\ Step(j, Fault(Frame(j), "scan", EvaluateError))

\* window.scrollBy and its delay, then i++ (part_004 131-132, 75)
ScrollBy(j, ok) ==
    /\ run[j].pc = "scrollBy"
    /\ Step(j, IF ok THEN ScanHead([Frame(j) EXCEPT !.run.i = @ + 1])
               ELSE Fault(Frame(j), "scrollBy", EvaluateError))

\* page.goto(mapsUrl), the full map view (part_004 138-140)
MapGoto(j, ok) ==
    /\ run[j].pc = "mapGoto"
    /\ LET f == [Frame(j) EXCEPT !.run.navs = @ \cup {"map"}]
       IN  Step(j, IF ok THEN [f EXCEPT !.run.pc = "mapRead"]
                   ELSE Fault(f, "mapGoto", NavigationError))

\* the read of the map layout, its merge and the no-results test
\* (part_004 143-170)
MapRead(j, anchors) ==
    /\ run[j].pc = "mapRead"
    /\ LET f == Frame(j)
           mapData == ScanAnchors(anchors, <<>>, job[j].category)
       IN  Step(j, NoLeadsCheck([f EXCEPT !.run.collectedLeads = Merge(@, mapData),
                                          !.run.reads = @ \cup {"map"},
                                          !.run.mapYield = <<Len(mapData)>>]))

MapReadFails(j) ==
    /\ run[j].pc = "mapRead"
    /\ Step(j, Fault(Frame(j), "mapRead", EvaluateError))

\* the catch of one enrichment pass (part_004 217-220)
PartialInfo(f) ==
    StealthStartItem([f EXCEPT !.run.detailedResults = Append(@, f.run.finalLeads[f.run.i + 1]),
                               !.run.i = @ + 1])

\* page.goto(lead.url) and its delay (part_004 187-188)
ProfileNav(j, ok) ==
    /\ run[j].pc = "profileNav"
    /\ LET f == [Frame(j) EXCEPT !.run.navs = @ \cup {"detail"}]
       IN  Step(j, IF ok THEN [f EXCEPT !.run.pc = "profileRead"] ELSE PartialInfo(f))

\* the profile read and the merge (part_004 190-216)
ProfileRead(j, info) ==
    /\ run[j].pc = "profileRead"
    /\ LET f == Frame(j)
           lead == f.run.finalLeads[f.run.i + 1]
       IN  Step(j, StealthStartItem([f EXCEPT !.run.detailedResults = Append(@, StealthEnriched(lead, info)),
                                              !.run.i = @ + 1]))

ProfileReadFails(j) ==
    /\ run[j].pc = "profileRead"
    /\ Step(j, PartialInfo(Frame(j)))

\* browser.close() in the finally block (part_004 229-231), then back in
\* runScrapeJob: the catch block, or validation up to the await of
\* generateExcel
StealthClose(j, ok) ==
    /\ run[j].pc = "close"
    /\ LET f == [Frame(j) EXCEPT !.run.closes = @ + 1]
           c == [job |-> f.job, hist |-> f.hist]
       IN  Step(j, IF ~ok THEN Rejected([f EXCEPT !.run.faults = @ \cup {"close"}], CloseError)
                   ELSE IF f.run.pending # null THEN Rejected(f, f.run.pending)
                   ELSE LET d == ValidateAndGenerate(c, f.run.detailedResults)
                        IN  [run |-> [f.run EXCEPT !.pc = "excel"], job |-> d.job, hist |-> d.hist])

\* the values of maxLeads the stealth engine is studied with
StealthCaps == {1, StealthDefaultLeads}

\* what the local-search page and the map page show during one run: nothing
\* at all (a blocked page) or any of their cards
StealthInit ==
    /\ now = 0
    /\ nextSweep = SweepMs
    /\ resp = NoResp
    /\ page = LoadedPage
    /\ call = NoCall
    /\ \E cards \in {{}, LocalCards}, anchors \in {{}, MapAnchors} :
          env = [uuids |-> Uuids,
                 details |-> { info \in StealthDetailTexts : info.rating = <<>> /\ info.reviews = <<>> },
                 views |-> Lists(cards, MaxPageItems),
                 mapViews |-> Lists(anchors, MaxPageItems)]
    /\ \E id \in Uuids, maxLeads \in StealthCaps :
          LET f == StealthStartJob(
                       [job  |-> NewJob(id, <<"B">>, <<"K">>, <<"I">>, maxLeads),
                        hist |-> [status |-> <<"starting">>, progress |-> <<0>>, reapedIn |-> null]])
          IN  /\ jobs = {id}
              /\ job = Extend(NoJobs, id, f.job)
              /\ run = Extend(NoJobs, id, f.run)
              /\ hist = Extend(NoJobs, id, f.hist)

StealthNext ==
    \/ \E j \in DOMAIN run, ok \in BOOLEAN : StealthLaunch(j, ok)
    \/ \E j \in DOMAIN run, ok \in BOOLEAN : StealthNewPage(j, ok)
    \/ \E j \in DOMAIN run, ok \in BOOLEAN : StealthGoto(j, ok)
    \/ \E j \in DOMAIN run, outcome \in {"absent", "clicked", "failed"} : StealthConsent(j, outcome)
    \/ \E j \in DOMAIN run, cards \in env.views : Scan(j, cards)
    \/ \E j \in DOMAIN run : ScanFails(j)
    \/ \E j \in DOMAIN run, ok \in BOOLEAN : ScrollBy(j, ok)
    \/ \E j \in DOMAIN run, ok \in BOOLEAN : MapGoto(j, ok)
    \/ \E j \in DOMAIN run, anchors \in env.mapViews : MapRead(j, anchors)
    \/ \E j \in DOMAIN run : MapReadFails(j)
    \/ \E j \in DOMAIN run, ok \in BOOLEAN : ProfileNav(j, ok)
    \/ \E j \in DOMAIN run, info \in env.details : ProfileRead(j, info)
    \/ \E j \in DOMAIN run : ProfileReadFails(j)
    \/ \E j \in DOMAIN run, ok \in BOOLEAN : StealthClose(j, ok)
    \/ \E j \in DOMAIN run, ok \in BOOLEAN : GenerateExcel(j, ok)

StealthSpec == StealthInit /\ [][StealthNext]_vars

(***************************************************************************)
(* The page script (excelGenerator.js 145-360): form submission, status    *)
(* polling, results and reset.  The server is what answers its requests.   *)
(* Each action is one handler run, or the code of a handler between two    *)
(* awaits.                                                                 *)
(***************************************************************************)
MaxJobs == 3
MaxInFlight == 2

\* the requests in flight and the timeouts not yet fired
InFlight(pg) == BagCardinality(pg.polls) + pg.submits + Len(pg.timeouts)

\* the answers to GET /api/status/:jobId (server.js 65-80) and what fetch
\* makes of a broken connection: a snapshot with one of the statuses a
\* lookup can meet, 404 for an unknown or reaped job, or a rejection
StatusAnswers(id) ==
    { [kind |-> "json", ok |-> FALSE, id |-> id, status |-> "", error |-> "Job not found"],
      [kind |-> "failed", ok |-> FALSE, id |-> id, status |-> "", error |-> "Failed to fetch"] }
    \cup IF id = 0 THEN {}
         ELSE { [kind |-> "json", ok |-> TRUE, id |-> id, status |-> status,
                 error |-> IF status = "error" THEN LaunchError ELSE ""] :
                  status \in {"scraping", "generating", "complete", "error"} }

\* showCard (excelGenerator.js 343-354)
showCard(pg, which) == [pg EXCEPT !.card = which]

\* showError (excelGenerator.js 356-359)
showError(pg, msg) == showCard([pg EXCEPT !.errorMessage = msg], "error")

\* clearInterval(pollInterval); pollInterval = null
StopPolling(pg) == [pg EXCEPT !.timers = @ \ {pg.pollInterval}, !.pollInterval = 0]

\* startPolling up to the return of setInterval (excelGenerator.js 233-262)
startPolling(pg) ==
    LET cleared == IF pg.pollInterval # 0
                   THEN [pg EXCEPT !.timers = @ \ {pg.pollInterval}]
                   ELSE pg
        timer == pg.nextTimer + 1
    IN  [cleared EXCEPT !.pollInterval = timer, !.timers = @ \cup {timer}, !.nextTimer = timer]

\* updateProgress (excelGenerator.js 264-270)
updateProgress(pg, data) == [pg EXCEPT !.progress = data.status]

\* showResults (excelGenerator.js 275-301)
showResults(pg, data) == showCard([pg EXCEPT !.resultsOf = data.id], "results")

\* resetToForm (excelGenerator.js 318-338)
resetToForm(pg) ==
    LET stopped == IF pg.pollInterval # 0 THEN StopPolling(pg) ELSE pg
    IN  showCard([stopped EXCEPT !.currentJobId = 0,
                                 !.submitDisabled = FALSE,
                                 !.progress = "Starting..."],
                 "form")

\* a poll with this answer stops the polling
EndsPolling(answer) ==
    answer.kind = "failed" \/ ~answer.ok \/ answer.status \in {"complete", "error"}

\* history: the job of an answer that stops the polling has ended
Ended(pg, answer) ==
    IF EndsPolling(answer) THEN [pg EXCEPT !.ended = @ \cup {answer.id}] ELSE pg

\* mutant of Polled: a poll that reports an error leaves the interval running
Polled_KeepsPolling(pg, answer) ==
    IF answer.kind = "failed" \/ ~answer.ok
    THEN showError(StopPolling(Ended(pg, answer)), answer.error)
    ELSE LET shown == updateProgress(Ended(pg, answer), answer)
         IN  IF answer.status = "complete"
             THEN [StopPolling(shown) EXCEPT !.timeouts = Append(@, answer)]
             ELSE IF answer.status = "error"
             THEN showError(shown, answer.error)
             ELSE shown

\* the interval callback from the answer of its fetch on
\* (excelGenerator.js 238-260)
Polled(pg, answer) ==
    IF answer.kind = "failed" \/ ~answer.ok
    THEN showError(StopPolling(Ended(pg, answer)), answer.error)
    ELSE LET shown == updateProgress(Ended(pg, answer), answer)
         IN  IF answer.status = "complete"
             THEN [StopPolling(shown) EXCEPT !.timeouts = Append(@, answer)]
             ELSE IF answer.status = "error"
             THEN showError(StopPolling(shown), answer.error)
             ELSE shown

PageStep(pg) ==
    /\ page' = pg
    /\ UNCHANGED <<env, jobs, job, run, hist, now, nextSweep, resp, call>>

\* the submit handler up to its fetch (excelGenerator.js 186-213); the form
\* can be submitted while its card is shown and its button is enabled
Submit(valid) ==
    /\ page.card = "form"
    /\ ~page.submitDisabled
    /\ valid => InFlight(page) < MaxInFlight
    /\ PageStep(IF valid
                THEN [page EXCEPT !.submitDisabled = TRUE, !.submits = @ + 1]
                ELSE page)

\* the submit handler from the answer of POST /api/scrape on
\* (excelGenerator.js 215-228)
SubmitReturns(outcome) ==
    /\ page.submits > 0
    /\ outcome \in {"started", "rejected", "failed"}
    /\ outcome = "started" => page.created < MaxJobs
    /\ LET pg == [page EXCEPT !.submits = @ - 1]
       IN  PageStep(IF outcome = "started"
                    THEN startPolling(showCard([pg EXCEPT !.currentJobId = pg.created + 1,
                                                          !.created = @ + 1],
                                               "progress"))
                    ELSE IF outcome = "rejected"
                    THEN showError(pg, "Missing required fields: category, state, country")
                    ELSE showError(pg, "Failed to fetch"))

\* the interval fires: the callback up to its fetch (excelGenerator.js 236-238)
Poll(timer) ==
    /\ timer \in page.timers
    /\ InFlight(page) < MaxInFlight
    /\ PageStep([page EXCEPT !.polls = @ (+) SetToBag({page.currentJobId})])

\* a status request in flight for job id is answered
PollReturns(id, answer) ==
    /\ BagIn(id, page.polls)
    /\ answer \in StatusAnswers(id)
    /\ PageStep(Polled([page EXCEPT !.polls = @ (-) SetToBag({id})], answer))

\* setTimeout(() => showResults(data), 800) fires (excelGenerator.js 249)
TimeoutFires ==
    /\ page.timeouts # <<>>
    /\ PageStep(showResults([page EXCEPT !.timeouts = Tail(@)], Head(page.timeouts)))

\* the click handlers of the results card and of the error card
\* (excelGenerator.js 306-316)
ClickDownload ==
    /\ page.card = "results"
    /\ PageStep(IF page.currentJobId = 0 THEN page
                ELSE [page EXCEPT !.location = page.currentJobId])

ClickNewScrape ==
    /\ page.card = "results"
    /\ PageStep(resetToForm(page))

ClickRetry ==
    /\ page.card = "error"
    /\ PageStep(resetToForm(page))

ClientInit ==
    /\ env = ValidatorEnv
    /\ InitStore

ClientNext ==
    \/ \E valid \in BOOLEAN : Submit(valid)
    \/ \E outcome \in {"started", "rejected", "failed"} : SubmitReturns(outcome)
    \/ \E timer \in page.timers : Poll(timer)
    \/ \E id \in BagToSet(page.polls) : \E answer \in StatusAnswers(id) : PollReturns(id, answer)
    \/ TimeoutFires
    \/ ClickDownload
    \/ ClickNewScrape
    \/ ClickRetry

ClientSpec == ClientInit /\ [][ClientNext]_vars

(***************************************************************************)
(* The scroll loop of the two older engine files, src/unnamed/part_002     *)
(* (94-144) and src/unnamed/part_003 (75-117): each iteration scrolls,     *)
(* counts the listing links that are in the page, and tests the page text  *)
(* for an end-of-list phrase.  A run starts at the head of the loop.       *)
(***************************************************************************)
MaxCount == 2
LegacyDefaultLeads == 100

\* maxScrollAttempts and the streak of equal counts the loop gives up at
LegacyVariants ==
    { [file |-> "part_002", maxScrollAttempts |-> 20, giveUp |-> 5],
      [file |-> "part_003", maxScrollAttempts |-> 15, giveUp |-> 3] }

LegacyCaps == {1, LegacyDefaultLeads}

\* the locals of scrapeGoogleMaps when the loop is entered
LegacyRun(variant, maxLeads) ==
    [pc |-> "scroll", browser |-> TRUE, file |-> variant.file,
     maxScrollAttempts |-> variant.maxScrollAttempts, giveUp |-> variant.giveUp,
     MAX_LEADS |-> ClampLeads(NumberToString(maxLeads), LegacyDefaultLeads),
     previousCount |-> 0, scrollAttempts |-> 0,
     leftBy |-> "", pending |-> null, faults |-> {}]

LegacyAtLoopHead(id, variant, maxLeads) ==
    LET c == SetStatus([job  |-> NewJob(id, <<"B">>, <<"K">>, <<"I">>, maxLeads),
                        hist |-> [status |-> <<"starting">>, progress |-> <<0>>,
                                  reapedIn |-> null]],
                       "scraping", Msg("Starting Google Maps scraper...", 0, 0, <<>>, ""))
    IN  Emit([run |-> LegacyRun(variant, maxLeads), job |-> c.job, hist |-> c.hist],
             Event(Msg("Loading business listings...", 0, 0, <<>>, ""), 0, 0, 0))

\* the loop is left: the 'extracting' event after it (history: leftBy is
\* the test that ended the loop)
LegacyAfterLoop(f, why) ==
    Emit([f EXCEPT !.run.pc = "links", !.run.leftBy = why],
         Event(Msg("Extracting business details...", 0, 0, <<>>, ""), 0, 0, 0))

\* while (scrollAttempts < maxScrollAttempts)
LegacyLoopHead(f) ==
    IF f.run.scrollAttempts < f.run.maxScrollAttempts
    THEN [f EXCEPT !.run.pc = "scroll"]
    ELSE LegacyAfterLoop(f, "maxScrollAttempts")

\* from the count of the links to the end-of-list read
\* (part_002 113-130, part_003 91-108)
LegacyCounted(f, currentCount) ==
    LET g == Emit(f, Event(Msg("Found ", currentCount, f.run.MAX_LEADS, <<>>,
                               " listings so far... (max )"), 0, 0, currentCount))
    IN  IF currentCount >= f.run.MAX_LEADS THEN LegacyAfterLoop(g, "cap")
        ELSE IF currentCount = f.run.previousCount
        THEN IF f.run.scrollAttempts + 1 >= f.run.giveUp
             THEN LegacyAfterLoop([g EXCEPT !.run.scrollAttempts = @ + 1], "streak")
             ELSE [g EXCEPT !.run.scrollAttempts = @ + 1,
                            !.run.previousCount = currentCount,
                            !.run.pc = "isEnd"]
        ELSE [g EXCEPT !.run.scrollAttempts = 0,
                       !.run.previousCount = currentCount,
                       !.run.pc = "isEnd"]

\* page.evaluate that scrolls the panel, and the delay after it
LegacyScroll(j, ok) ==
    /\ run[j].pc = "scroll"
    /\ Step(j, IF ok THEN [Frame(j) EXCEPT !.run.pc = "count"]
               ELSE Fault(Frame(j), "scroll", EvaluateError))

\* page.evaluate that counts the listing links
LegacyCount(j, currentCount) ==
    /\ run[j].pc = "count"
    /\ Step(j, LegacyCounted(Frame(j), currentCount))

LegacyCountFails(j) ==
    /\ run[j].pc = "count"
    /\ Step(j, Fault(Frame(j), "count", EvaluateError))

\* page.evaluate that looks for an end-of-list phrase
LegacyCheckEnd(j, endOfResults) ==
    /\ run[j].pc = "isEnd"
    /\ Step(j, IF endOfResults THEN LegacyAfterLoop(Frame(j), "endOfResults")
               ELSE LegacyLoopHead(Frame(j)))

LegacyCheckEndFails(j) ==
    /\ run[j].pc = "isEnd"
    /\ Step(j, Fault(Frame(j), "isEnd", EvaluateError))

\* job j is inside the loop, suspended at one of its awaits
InLegacyLoop(j) == j \in DOMAIN run /\ run[j].pc \in {"scroll", "count", "isEnd"}

LegacyInit ==
    /\ now = 0
    /\ nextSweep = SweepMs
    /\ resp = NoResp
    /\ page = LoadedPage
    /\ call = NoCall
    /\ env = [uuids |-> Uuids, counts |-> 0..MaxCount]
    /\ \E id \in Uuids, variant \in LegacyVariants, maxLeads \in LegacyCaps :
          LET f == LegacyAtLoopHead(id, variant, maxLeads)
          IN  /\ jobs = {id}
              /\ job = Extend(NoJobs, id, f.job)
              /\ run = Extend(NoJobs, id, f.run)
              /\ hist = Extend(NoJobs, id, f.hist)

LegacyNext ==
    \/ \E j \in DOMAIN run, ok \in BOOLEAN : LegacyScroll(j, ok)
    \/ \E j \in DOMAIN run, currentCount \in env.counts : LegacyCount(j, currentCount)
    \/ \E j \in DOMAIN run : LegacyCountFails(j)
    \/ \E j \in DOMAIN run, endOfResults \in BOOLEAN : LegacyCheckEnd(j, endOfResults)
    \/ \E j \in DOMAIN run : LegacyCheckEndFails(j)

LegacySpec == LegacyInit /\ [][LegacyNext]_vars

\* every await of the loop returns: a run inside the loop takes its next step
FairLegacySpec ==
    /\ LegacyInit
    /\ [][LegacyNext]_vars
    /\ WF_vars(LegacyNext)

(***************************************************************************)
(* The store with two jobs of different ages: requests, the clock, the     *)
(* sweep of the reaper and the browser launch of each job, which fails or  *)
(* leaves the job scraping for as long as the clock runs.                  *)
(***************************************************************************)
ReaperInit ==
    /\ env = [uuids |-> TwoUuids, feed |-> {}, details |-> {NoDetails}]
    /\ InitStore

ReaperNext ==
    \/ \E body \in TwoJobBodies :
          PostScrape(body.category, body.state, body.country, body.leads)
    \/ Tick
    \/ Sweep
    \/ \E j \in DOMAIN run, ok \in BOOLEAN : Launch(j, ok)

ReaperSpec == ReaperInit /\ [][ReaperNext]_vars

(***************************************************************************)
(* Properties                                                              *)
(***************************************************************************)
Terminal == {"complete", "error"}

AllowedTransitions ==
    { <<"starting", "scraping">>, <<"scraping", "validating">>,
      <<"validating", "generating">>, <<"generating", "complete">> }
    \cup { <<s, "error">> : s \in {"starting", "scraping", "validating", "generating"} }

\* C1: the values assigned to a job's status, in order, start with starting
\* and each next one follows its predecessor along starting -> scraping ->
\* validating -> generating -> complete or goes from a non-terminal status to
\* error; nothing is assigned after complete or error, and the job's status
\* is the last value assigned.
C1_StatusTransitions ==
    \A j \in DOMAIN job :
        LET log == hist[j].status
        IN  /\ log[1] = "starting"
            /\ job[j].status = log[Len(log)]
            /\ \A k \in 1..(Len(log) - 1) : <<log[k], log[k + 1]>> \in AllowedTransitions

C1_Witness ==
    \E j \in DOMAIN job :
        hist[j].status = <<"starting", "scraping", "validating", "generating", "complete">>

\* C2: the values assigned to a job's progress, in order, never decrease.
C2_ProgressNonDecreasing ==
    \A j \in DOMAIN job :
        LET log == hist[j].progress
        IN  \A k \in 1..(Len(log) - 1) : log[k] <= log[k + 1]

\* C3: under FairSpec (every awaited operation returns or fails), every
\* created job eventually has status complete or error.
C3_EveryJobTerminates ==
    \A j \in Uuids :
        (j \in DOMAIN job) ~> (j \in DOMAIN job /\ job[j].status \in Terminal)

C3_Witness ==
    \E j \in DOMAIN job :
        /\ job[j].status = "complete"
        /\ run[j].scrollAttempts = StagnationLimit

\* C4: when an exception has reached runScrapeJob (from the engine, browser
\* launch included, or from the report generator), the call is over, the job
\* has status error, job.error is the exception's message and job.message is
\* "Error: " followed by it, and the engine was started exactly once; an
\* exception still on its way is waiting for browser.close in the finally
\* block.
C4_ErrorRecorded ==
    \A j \in DOMAIN job :
        /\ run[j].launches = 1
        /\ (run[j].pending # null /\ run[j].pc # "done") => run[j].pc = "close"
        /\ (run[j].pending # null /\ run[j].pc = "done") =>
              /\ job[j].status = "error"
              /\ job[j].error = run[j].pending
              /\ job[j].message = Msg("Error: ", 0, 0, <<>>, run[j].pending)
        /\ (run[j].faults # {} /\ run[j].pc = "done") =>
              /\ job[j].status = "error"
              /\ job[j].error \in {LaunchError, PageError, NavigationError,
                                   EvaluateError, CloseError, ExcelError}

C4_Witness ==
    \E j \in DOMAIN job :
        /\ run[j].pc = "done"
        /\ run[j].faults = {"generateExcel"}
        /\ job[j].error = ExcelError

\* the enrichment loop of job j has run to its end
EnrichmentDone(j) ==
    /\ run[j].listingLinks # <<>>
    /\ run[j].i = Len(run[j].listingLinks)

\* records that pass the completeness filter and have pairwise distinct
\* deduplication keys
WellFormed(records) ==
    /\ \A k \in 1..Len(records) : IsComplete(records[k])
    /\ \A k, m \in 1..Len(records) : k # m => DedupKey(records[k]) # DedupKey(records[m])

\* records with non-empty name and address and pairwise distinct
\* name/address pairs, as the texts stand
RawWellFormed(records) ==
    /\ \A k \in 1..Len(records) : records[k].name # <<>> /\ records[k].address # <<>>
    /\ \A k, m \in 1..Len(records) :
          k # m => <<records[k].name, records[k].address>> # <<records[m].name, records[m].address>>

\* the part of C5 about scrapeGoogleMaps: the candidates handed to enrichment
\* are the truncated list; after each pass there is one record per candidate
\* processed, in discovery order; a candidate whose navigation or read failed
\* keeps its list-view record unchanged; and such a failure raises nothing
\* (the only exceptions that can follow are those of browser.close and of the
\* report generator).
C5_OneRecordPerCandidate ==
    \A j \in DOMAIN job :
        /\ run[j].listingLinks # <<>> =>
              run[j].listingLinks = SubSeq(run[j].fastResults, 1,
                                           Min(run[j].MAX_LEADS, Len(run[j].fastResults)))
        /\ Len(run[j].finalResults) = run[j].i
        /\ \A k \in 1..run[j].i :
              /\ run[j].finalResults[k].url = run[j].listingLinks[k].url
              /\ k \in run[j].failed => run[j].finalResults[k] = run[j].listingLinks[k]
        /\ run[j].failed # {} => run[j].pending \in {null, CloseError, ExcelError}

C6_FallbackBeforeNoResults ==
    \A j \in DOMAIN job :
        run[j].pending = NoResultsMessage => "fallback" \in run[j].navs

ScenarioA(j) ==
    /\ run[j].pc = "done"
    /\ run[j].faults = {}
    /\ run[j].fastResults # <<>>
    /\ Len(run[j].fastResults) <= run[j].MAX_LEADS
    /\ run[j].finalResults = run[j].fastResults

CompleteWithAll(j) ==
    /\ job[j].status = "complete"
    /\ job[j].resultCount = Len(run[j].fastResults)
    /\ Len(job[j].results) = Len(run[j].fastResults)
    /\ \A k \in 1..Len(job[j].results) : Len(job[j].results[k].iceBreaker) > 0

EngineArguments == {0 - 3, 0, 1, 100, 150}

\* the cap of every request text, and of every direct argument of the
\* engine, lies in 1..100
RequestedCapsInRange == \A leads \in LeadsTexts : ClampLeads(leads, DefaultLeads) \in 1..100

EngineCapsInRange ==
    \A n \in EngineArguments : ClampLeads(NumberToString(n), EngineDefaultLeads) \in 1..100

\* C9: whatever `leads` text is requested, the job's maxLeads and the
\* engine's cap lie in 1..100, and the engine never hands more records than
\* its cap to enrichment or back to the caller.
C9_CapEnforced ==
    /\ RequestedCapsInRange
    /\ EngineCapsInRange
    /\ \A j \in DOMAIN job :
          /\ job[j].maxLeads \in 1..100
          /\ run[j].MAX_LEADS \in 1..100
          /\ Len(run[j].listingLinks) <= run[j].MAX_LEADS
          /\ Len(run[j].finalResults) <= run[j].MAX_LEADS

C9_Witness ==
    \E j \in DOMAIN job :
        /\ run[j].MAX_LEADS = 1
        /\ Len(run[j].fastResults) = 2
        /\ Len(run[j].finalResults) = 1
        /\ job[j].status = "complete"

\* C10: whenever the download handler answers, it hands out the file (200,
\* the job's filePath) exactly if the id is in the store and the job's status
\* is complete; it answers 400 for a job in the store in any other status and
\* 404 for an id that is not in the store (never issued, or reaped).
C10_DownloadOnlyWhenComplete ==
    [][\A id \in RequestIds :
          Download(id) =>
              /\ resp'.code = 200 <=> (id \in jobs /\ job[id].status = "complete")
              /\ resp'.code = 200 => (resp'.body = job[id].filePath /\ resp'.body # null)
              /\ (id \in jobs /\ job[id].status # "complete") => resp'.code = 400
              /\ id \notin jobs => resp'.code = 404]_vars

C10_Witness ==
    /\ resp.op = "download"
    /\ resp.code = 404
    /\ resp.id \in DOMAIN job
    /\ resp.id \notin jobs
    /\ job[resp.id].status = "complete"

\* C11: a job created at t0 is not in the store, and a status lookup for its
\* id answers 404, at every time later than t0 + 1 hour + 30 minutes,
\* whatever its status.
C11_ReapedAfterRetention ==
    \A j \in DOMAIN job :
        now > job[j].createdAt + 3600000 + 1800000 =>
            /\ j \notin jobs
            /\ StatusResponse(j).code = 404

C11_Witness ==
    /\ resp.op = "status"
    /\ resp.code = 404
    /\ resp.id \in DOMAIN job
    /\ now > job[resp.id].createdAt + 3600000 + 1800000
    /\ job[resp.id].status = "scraping"

\* C12: a run of the cleanup interval deletes every job created more than an
\* hour ago, whatever its status; a deleted id never comes back into the
\* store and both lookups answer 404 for it; and a pipeline that goes on
\* after the deletion ends as it would have: complete, or error with the
\* message of a driver, no-results or report failure.
C12_ReapedWhileRunning ==
    /\ [](\A j \in DOMAIN job \ jobs :
            /\ StatusResponse(j).code = 404
            /\ DownloadResponse(j).code = 404
            /\ job[j].status = "error" =>
                  job[j].error \in {LaunchError, PageError, NavigationError, EvaluateError,
                                    CloseError, ExcelError, NoResultsMessage})
    /\ [][/\ Sweep => \A j \in jobs : now - job[j].createdAt > 3600000 => j \notin jobs'
          /\ \A j \in DOMAIN job \ jobs : j \notin jobs']_vars

C12_Witness ==
    \E j \in DOMAIN job \ jobs :
        /\ hist[j].reapedIn = "scraping"
        /\ job[j].status = "complete"
        /\ job[j].filePath # null
        /\ job[j].resultCount = 1
        /\ resp.op = "download" /\ resp.id = j /\ resp.code = 404

\* C13: a scrape request whose category, state or country is missing or
\* empty is answered 400, changes neither the store nor any job and starts no
\* engine; every other request is answered 200 with the id of exactly one
\* new job, an id no job had before, which was created with status starting,
\* progress 0 and resultCount 0 at the present time and whose engine was
\* started once; the jobs already there are untouched.
C13_ScrapeRequest ==
    [][\A body \in RequestBodies :
          PostScrape(body.category, body.state, body.country, body.leads) =>
              IF body.category = <<>> \/ body.state = <<>> \/ body.country = <<>>
              THEN /\ resp'.code = 400
                   /\ jobs' = jobs /\ job' = job /\ run' = run /\ hist' = hist
              ELSE /\ resp'.code = 200
                   /\ resp'.body \notin DOMAIN job
                   /\ jobs' = jobs \cup {resp'.body}
                   /\ DOMAIN job' = DOMAIN job \cup {resp'.body}
                   /\ \A j \in DOMAIN job :
                         job'[j] = job[j] /\ run'[j] = run[j] /\ hist'[j] = hist[j]
                   /\ LET new == job'[resp'.body]
                      IN  /\ new.id = resp'.body
                          /\ hist'[new.id].status[1] = "starting"
                          /\ hist'[new.id].progress = <<0>>
                          /\ new.resultCount = 0
                          /\ new.results = <<>>
                          /\ new.createdAt = now
                          /\ new.maxLeads \in 1..100
                          /\ run'[new.id].launches = 1]_vars

C13_Witness ==
    /\ resp.op = "scrape"
    /\ resp.code = 400
    /\ jobs # {}
    /\ \E j \in jobs : job[j].status = "scraping"

\* C14: a status lookup of a stored job returns in `results` the first
\* min(20, Len(job.results)) records of job.results, in order, when the
\* status is complete, and the empty list in every other status; the
\* response sent is that snapshot.
C14_StatusPreview ==
    [][\A id \in RequestIds :
          GetStatus(id) =>
              /\ resp'.results = StatusResponse(id).results
              /\ id \in jobs =>
                    IF job[id].status = "complete"
                    THEN /\ Len(resp'.results) = Min(20, Len(job[id].results))
                         /\ \A k \in 1..Len(resp'.results) : resp'.results[k] = job[id].results[k]
                    ELSE resp'.results = <<>>]_vars

C14_Witness ==
    /\ resp.op = "status"
    /\ resp.code = 200
    /\ job[resp.id].status = "complete"
    /\ Len(job[resp.id].results) = 21
    /\ Len(resp.results) = 20
    /\ resp.results[20].name = <<"2", "0">>

\* a text that is empty or consists of whitespace only
Blank(s) == \A i \in 1..Len(s) : s[i] \in {" ", "\t"}

NoBlankNameOrAddress(records) ==
    \A k \in 1..Len(records) : ~Blank(records[k].name) /\ ~Blank(records[k].address)

\* C15: whatever list validateAndClean is called with, no record of its
\* output has an empty or whitespace-only name or address; and no record of
\* any job's results has.
C15_NoIncompleteRecords ==
    /\ (call.fn = "validateAndClean" /\ call.done) => NoBlankNameOrAddress(call.result)
    /\ \A j \in DOMAIN job : NoBlankNameOrAddress(job[j].results)

C15_Witness ==
    /\ call.fn = "validateAndClean"
    /\ call.done
    /\ Len(call.arg) = 2
    /\ Blank(call.arg[1].name) /\ call.arg[1].name # <<>>
    /\ Blank(call.arg[2].address)
    /\ call.result = <<>>

\* the lowercased, trimmed name and address of a record
NormalizedPair(biz) == <<trim(toLowerCase(biz.name)), trim(toLowerCase(biz.address))>>

\* the key: the lowercased, trimmed name and address joined by "|"
JoinedKey(biz) == NormalizedPair(biz)[1] \o <<"|">> \o NormalizedPair(biz)[2]

\* the positions of a list whose key occurs at no earlier position
FirstOccurrences(records) ==
    { k \in 1..Len(records) :
        \A m \in 1..(k - 1) : JoinedKey(records[m]) # JoinedKey(records[k]) }

\* the i-th smallest element of a set of numbers
Nth(S, i) == CHOOSE k \in S : Cardinality({ m \in S : m < k }) = i - 1

\* C16: for every list removeDuplicates is called with, applying it to its
\* output changes nothing; the output is the input restricted to the first
\* occurrence of each key (lowercased, trimmed name, "|", lowercased, trimmed
\* address), in input order;
\* and no two records of the output have both texts equal after lowercasing
\* and trimming.
C16_RemoveDuplicates ==
    (call.fn = "removeDuplicates" /\ call.done) =>
        LET in  == call.arg
            out == call.result
        IN  /\ removeDuplicates(out) = out
            /\ Len(out) = Cardinality(FirstOccurrences(in))
            /\ \A i \in 1..Len(out) : out[i] = in[Nth(FirstOccurrences(in), i)]
            /\ \A i, k \in 1..Len(out) :
                  i # k => NormalizedPair(out[i]) # NormalizedPair(out[k])

C16_Witness ==
    /\ call.fn = "removeDuplicates"
    /\ call.done
    /\ Len(call.arg) = 3
    /\ call.arg[1].name # call.arg[3].name
    /\ call.arg[1].address # call.arg[3].address
    /\ NormalizedPair(call.arg[1]) = NormalizedPair(call.arg[3])
    /\ call.result = <<call.arg[1], call.arg[2]>>

\* C17: for every text s normalizePhone is called with,
\* normalizePhone(normalizePhone(s)) = normalizePhone(s).
C17_NormalizePhoneIdempotent ==
    (call.fn = "normalizePhone" /\ call.done) => normalizePhone(call.result) = call.result

C17_Witness ==
    /\ call.fn = "normalizePhone"
    /\ call.done
    /\ call.arg = <<"a", " ", " ", "1">>
    /\ call.result = <<"1">>

\* C18: for every text s normalizeUrl is called with,
\* normalizeUrl(normalizeUrl(s)) = normalizeUrl(s).
C18_NormalizeUrlIdempotent ==
    (call.fn = "normalizeUrl" /\ call.done) => normalizeUrl(call.result) = call.result

\* the positions of the records of a list that have a name and an address
\* and the same lowercased, trimmed name and address as the record at k
SameBusiness(records, k) ==
    { m \in 1..Len(records) :
        /\ ~Blank(records[m].name) /\ ~Blank(records[m].address)
        /\ NormalizedPair(records[m]) = NormalizedPair(records[k]) }

\* out is what filter -> normalize -> synthesize -> deduplicate makes of in
InContractOrder(in, out) ==
    /\ \A i \in 1..Len(out) :
          /\ out[i].iceBreaker = generateIceBreaker(out[i])
          /\ out[i].iceBreaker[2] = out[i].name
          /\ out[i].name = trim(out[i].name)
          /\ out[i].website = normalizeUrl(out[i].website)
    /\ \A k \in 1..Len(in) :
          k \in SameBusiness(in, k) =>
              LET first == Nth(SameBusiness(in, k), 1)
                  kept  == { i \in 1..Len(out) : NormalizedPair(out[i]) = NormalizedPair(in[k]) }
              IN  /\ Cardinality(kept) = 1
                  /\ \A i \in kept : /\ out[i].name = trim(in[first].name)
                                     /\ out[i].address = trim(in[first].address)

\* C19: every record validateAndClean puts out carries the ice breaker
\* generated from its own, normalized fields, and of the input records that
\* have a name and an address and differ only in letter case or surrounding
\* whitespace of these exactly one is put out, made from the first of them;
\* for a direct call and for the results of every job.
C19_ValidatorOrder ==
    /\ (call.fn = "validateAndClean" /\ call.done) => InContractOrder(call.arg, call.result)
    /\ \A j \in DOMAIN job :
          run[j].pc \in {"excel", "done"} /\ run[j].pending = null =>
              InContractOrder(run[j].finalResults, job[j].results)

C19_Witness ==
    /\ call.fn = "validateAndClean"
    /\ call.done
    /\ Len(call.arg) = 2
    /\ call.arg[1].name = <<" ", "A">>
    /\ call.arg[1].website = <<" ">>
    /\ call.arg[2].name = <<"a", " ">>
    /\ Len(call.result) = 1
    /\ call.result[1].name = <<"A">>
    /\ call.result[1].address = <<"X">>
    /\ call.result[1].website = <<>>
    /\ call.result[1].iceBreaker = generateIceBreaker(call.result[1])
    /\ call.result[1].iceBreaker # generateIceBreaker(call.arg[1])

\* the rule table, evaluated in order on the parsed rating and review count
\* (a comparison with an empty or unparseable value is false)
TableBranch(rating, reviews) ==
    IF NumGeq(rating, [num |-> 45, den |-> 10]) /\ NumGreater(reviews, Num(20)) THEN "praise"
    ELSE IF NumLess(rating, Num(4)) THEN "improve"
    ELSE IF NumLess(reviews, Num(10)) THEN "fewReviews"
    ELSE "solid"

\* C20: for every rating and review count text, the profile sentence of the
\* ice breaker validateAndClean generates for a record is the one the rule
\* table selects: praise for rating >= 4.5 and reviews > 20, otherwise
\* improvement for rating < 4.0, otherwise review growth for reviews < 10,
\* otherwise neutral.
C20_IceBreakerBranch ==
    (call.fn = "validateAndClean" /\ call.done /\ Len(call.arg) = 1 /\ Len(call.result) = 1) =>
        call.result[1].iceBreaker[6].branch =
            TableBranch(parseFloat(call.arg[1].rating), parseInt(call.arg[1].reviews))

\* C21: a job whose status is scraping has a progress within 0..90; the
\* progress is 90 when the status is validating, 95 when it is generating and
\* 100 when it is complete.
C21_ProgressByStatus ==
    \A j \in DOMAIN job :
        /\ job[j].status = "scraping" => job[j].progress \in 0..90
        /\ job[j].status = "validating" => job[j].progress = 90
        /\ job[j].status = "generating" => job[j].progress = 95
        /\ job[j].status = "complete" => job[j].progress = 100

\* the fields the list view can fill in before the detail page is read
ListViewFields == {"address", "phone", "website", "rating", "reviews"}

\* what the merge of a candidate with a detail read may do: a field the list
\* view knew is still non-empty, and keeps its list-view value when the detail
\* page has nothing for it; name, url and category are the candidate's
KeepsListView(candidate, details, enriched) ==
    /\ \A f \in ListViewFields :
          candidate[f] # <<>> =>
              /\ enriched[f] # <<>>
              /\ (f \notin DOMAIN details \/ details[f] = <<>>) => enriched[f] = candidate[f]
    /\ \A f \in {"name", "url", "category"} : enriched[f] = candidate[f]

\* C22: in scraper.js and in the stealth engine, whatever the list view and
\* the detail page deliver, the merge of a successful detail read keeps
\* every list-view field that was known and never changes name, url and
\* category.
C22_MergeKeepsListView ==
    (call.fn \in {"Enriched", "StealthEnriched"} /\ call.done) =>
        KeepsListView(call.arg[1], call.arg[2], call.result)

\* C23: under FairScrollSpec (every driver call of the loop returns or
\* fails), a call that is inside its scroll loop eventually is outside it,
\* whatever the reads deliver and even if no end-of-results text ever shows.
C23_ScrollLoopTerminates ==
    \A j \in Uuids : InLoop(j) ~> ~InLoop(j)

\* the cap ended the loop of a page that showed one more listing at every
\* read
C23_Witness ==
    \E j \in DOMAIN run :
        /\ run[j].pc = "detailNav"
        /\ run[j].MAX_LEADS = 3
        /\ Len(run[j].fastResults) = 3
        /\ run[j].iterations = 3
        /\ run[j].previousCount = 2
        /\ run[j].scrollAttempts = 0
        /\ env.views = LongPageViews

\* C24: no call makes more than maxScrollAttempts = 25 passes of its scroll
\* loop (list-view reads), however the number of candidates evolves.
C24_AtMostMaxScrollAttempts ==
    \A j \in DOMAIN run : run[j].iterations <= maxScrollAttempts

\* the step is the return of a list-view read of job j
ReadReturns(j) == run[j].pc = "read" /\ run'[j].iterations = run[j].iterations + 1

\* what a pass of the scroll loop of job j that has read the list view does
\* to the stagnation counter and to the loop, given what the counter is
\* after a pass that reaches the cap
StagnationStep(j, afterCap(_)) ==
    LET grew   == Len(run'[j].fastResults) > Len(run[j].fastResults)
        capped == Len(run'[j].fastResults) >= run[j].MAX_LEADS
    IN  /\ (grew /\ ~capped) => run'[j].scrollAttempts = 0
        /\ (grew /\ capped) => run'[j].scrollAttempts = afterCap(run[j].scrollAttempts)
        /\ ~grew => run'[j].scrollAttempts = run[j].scrollAttempts + 1
        /\ ~InLoop(j)' <=> (capped \/ (~grew /\ run'[j].scrollAttempts = 5))

\* inside the loop the counter is below 5 and the cap has not been reached
StreakBelowLimit ==
    \A j \in DOMAIN run :
        InLoop(j) => /\ run[j].scrollAttempts \in 0..4
                     /\ Len(run[j].fastResults) < run[j].MAX_LEADS

\* C25 as stated: every pass that adds a candidate sets the stagnation
\* counter to 0 and every pass that adds none increments it, so that it is
\* the length of the latest run of passes without growth; a pass leaves the
\* loop exactly when it reaches the cap or is the 5th in a row without
\* growth.
C25_Original ==
    /\ []StreakBelowLimit
    /\ [][\A j \in DOMAIN run : ReadReturns(j) => StagnationStep(j, LAMBDA n : 0)]_vars

\* C25 as amended: the same, except that the pass that reaches the cap
\* leaves the counter as it was (the loop is left before the counter is
\* updated).
C25_StagnationCounter ==
    /\ []StreakBelowLimit
    /\ [][\A j \in DOMAIN run : ReadReturns(j) => StagnationStep(j, LAMBDA n : n)]_vars

\* four passes without a candidate, one that adds the first, and five more
\* without growth ended the loop
C25_Witness ==
    \E j \in DOMAIN run :
        /\ ~InLoop(j)
        /\ run[j].iterations = 10
        /\ Len(run[j].fastResults) = 1
        /\ run[j].scrollAttempts = 5
        /\ run[j].MAX_LEADS = 3

\* the progress values that runScrapeJob assigns itself after the engine
\* has returned
PipelineProgress == { <<>>, <<90>>, <<90, 95>>, <<90, 95, 100>> }

\* the number of enrichment events of job j so far: one for each candidate
\* whose navigation has been started
Announced(j) ==
    IF run[j].pc \in {"detailNav", "detailRead"} THEN run[j].i + 1 ELSE run[j].i

\* C26: in a job with n candidates, when the navigation to the detail page
\* of candidate i is awaited, and while that page is read, exactly the
\* events with current = 1, ..., i and total = n have been emitted, the last
\* of them for candidate i; after the loop there are exactly n, whichever
\* navigations or reads failed.  (An event with current and total is an
\* assignment of round(100 * current / total) to job.progress, and the
\* message of the event names current, total and the candidate.)
C26_EventBeforeNavigation ==
    \A j \in DOMAIN job :
        run[j].listingLinks # <<>> =>
            LET n   == Len(run[j].listingLinks)
                e   == Announced(j)
                log == hist[j].progress
            IN  /\ Len(log) >= 1 + e
                /\ log[1] = 0
                /\ \A k \in 1..e : log[1 + k] = RoundPercent(k, n)
                /\ SubSeq(log, 2 + e, Len(log)) \in PipelineProgress
                /\ run[j].pc \in {"detailNav", "detailRead"} =>
                      job[j].message =
                          Msg("Checking ", run[j].i + 1, n, run[j].listingLinks[run[j].i + 1].name, "")

\* the second of two candidates is announced after the navigation to the
\* first has failed
C26_Witness ==
    \E j \in DOMAIN job :
        /\ run[j].pc = "detailNav"
        /\ Len(run[j].listingLinks) = 2
        /\ run[j].i = 1
        /\ run[j].failed = {1}
        /\ hist[j].progress = <<0, 50, 100>>
        /\ job[j].message.a = 2

\* the positions of a read whose container has a place link and a name and a
\* url that is neither known nor at an earlier such position of the read
Discoveries(items, known) ==
    { k \in 1..Len(items) :
        /\ items[k].link # 0
        /\ items[k].name # <<>>
        /\ \A m \in 1..Len(known) : known[m].url # items[k].link
        /\ \A m \in 1..(k - 1) :
              (items[m].link # 0 /\ items[m].name # <<>>) => items[m].link # items[k].link }

\* no two candidates with the same url, none without a name, and the list
\* handed to enrichment is the head of the candidate list
UniqueNamedCandidates ==
    \A j \in DOMAIN run :
        LET fastResults == run[j].fastResults
        IN  /\ \A k, m \in 1..Len(fastResults) : k # m => fastResults[k].url # fastResults[m].url
            /\ \A k \in 1..Len(fastResults) : fastResults[k].name # <<>>
            /\ run[j].pc = "detailNav" =>
                  /\ Len(run[j].listingLinks) = Min(run[j].MAX_LEADS, Len(fastResults))
                  /\ \A k \in 1..Len(run[j].listingLinks) : run[j].listingLinks[k] = fastResults[k]

\* C27: after every pass of the collection loop the candidates have pairwise
\* different urls and non-empty names; whatever containers the list view
\* shows to a job that awaits its read, the pass leaves the entries it
\* found in place and appends, in the order of the read, the first
\* container of each url it did not know (with that container's name and
\* address); and the list handed to enrichment is the first
\* min(MAX_LEADS, size) candidates in that order.
C27_DiscoveryOrder ==
    /\ UniqueNamedCandidates
    /\ \A j \in DOMAIN run :
            run[j].pc = "read" =>
              \A items \in env.views :
                LET old == run[j].fastResults
                    new == Viewed(j, items).run.fastResults
                    disc == Discoveries(items, old)
                IN  /\ Len(new) = Len(old) + Cardinality(disc)
                    /\ \A k \in 1..Len(old) : new[k] = old[k]
                    /\ \A i \in 1..Cardinality(disc) :
                          LET item == items[Nth(disc, i)]
                          IN  /\ new[Len(old) + i].url = item.link
                              /\ new[Len(old) + i].name = item.name
                              /\ new[Len(old) + i].address = item.address

\* one read found url 2 before url 1 and the cap of 1 handed url 2 alone to
\* enrichment
C27_Witness ==
    \E j \in DOMAIN run :
        /\ run[j].pc = "detailNav"
        /\ run[j].MAX_LEADS = 1
        /\ run[j].iterations = 1
        /\ Len(run[j].fastResults) = 2
        /\ run[j].fastResults[1].url = 2
        /\ run[j].fastResults[2].name = <<"B">>
        /\ run[j].listingLinks = <<run[j].fastResults[1]>>

\* C28: a call of scrapeGoogleMaps launches a browser once; browser.close is
\* called only on a browser that was launched, not before the call leaves
\* its try block, and at most once; and when the call is over it has been
\* called exactly once if the launch succeeded (whether the call returned,
\* raised the no-results error or failed in a driver operation) and not at
\* all if the launch failed.
C28_BrowserClosedOnce ==
    \A j \in DOMAIN run :
        /\ run[j].launches = 1
        /\ run[j].closes \in {0, 1}
        /\ run[j].closes = 1 => run[j].browser
        /\ run[j].pc \notin {"close", "excel", "done"} => run[j].closes = 0
        /\ run[j].pc = "close" => (run[j].browser /\ run[j].closes = 0)
        /\ run[j].pc \in {"excel", "done"} => run[j].closes = (IF run[j].browser THEN 1 ELSE 0)
        /\ "launch" \in run[j].faults => (~run[j].browser /\ run[j].closes = 0)

\* the end-of-results read failed and the browser was closed
C28_Witness ==
    \E j \in DOMAIN run :
        /\ run[j].pc = "done"
        /\ run[j].faults = {"isEnd"}
        /\ run[j].browser
        /\ run[j].closes = 1
        /\ job[j].error = EvaluateError

\* C29: with two jobs in flight, a step of the pipeline of one job (the code
\* up to its next await, progress callbacks included) changes no field of
\* the other job's object, nothing of the other call's locals and nothing of
\* its history; a new request leaves the jobs that exist as they are; and a
\* job's object changes only in a step of its own pipeline.
C29_JobsIsolated ==
    [][/\ \A j \in DOMAIN job :
            PipelineStep(j) =>
                \A k \in DOMAIN job \ {j} :
                    job'[k] = job[k] /\ run'[k] = run[k] /\ hist'[k] = hist[k]
       /\ \A k \in DOMAIN job :
            /\ k \in DOMAIN job'
            /\ job'[k] # job[k] => PipelineStep(k)]_vars

\* the second job is complete with its phone number while the first, created
\* before it, is still waiting for its list-view read
C29_Witness ==
    /\ DOMAIN job = TwoUuids
    /\ \E j, k \in TwoUuids :
          /\ j # k
          /\ job[j].status = "scraping"
          /\ run[j].pc = "read"
          /\ job[j].progress = 0
          /\ job[k].status = "complete"
          /\ job[k].progress = 100
          /\ job[k].resultCount = 1
          /\ job[k].results[1].phone = <<"1">>

\* the integer values of `leads` among the request bodies
LeadsIntegers == {0 - 3, 0, 1, 150}

\* C30: a request whose `leads` is the integer n creates a job whose
\* maxLeads is min(max(n, 1), 100), which is also what the page's submit
\* handler makes of n, and the engine's cap for that job is the same number.
C30_ServerClampsLikeClient ==
    [][\A n \in LeadsIntegers :
          PostScrape(<<"B">>, <<"K">>, <<"I">>, NumberToString(n)) =>
              LET id == resp'.body
              IN  /\ job'[id].maxLeads = Min(Max(n, 1), 100)
                  /\ job'[id].maxLeads = ClientClamp(NumberToString(n))
                  /\ run'[id].MAX_LEADS = job'[id].maxLeads]_vars

\* C31: in the stealth engine the full map view is navigated to exactly when
\* the collection loop on the local-search view ended without a candidate,
\* and the no-results error is raised only after the local-search view and
\* the map view have both been read and neither yielded a candidate.
C31_FallbackBeforeNoResults ==
    \A j \in DOMAIN run :
        /\ "map" \in run[j].navs => run[j].loopEnd = <<0>>
        /\ run[j].loopEnd = <<0>> => run[j].pc = "mapGoto" \/ "map" \in run[j].navs
        /\ run[j].pc = "mapGoto" => run[j].loopEnd = <<0>> /\ "map" \notin run[j].navs
        /\ run[j].pending = StealthNoResultsMessage =>
              /\ run[j].reads = {"local", "map"}
              /\ run[j].loopEnd = <<0>>
              /\ run[j].mapYield = <<0>>
              /\ run[j].collectedLeads = <<>>

\* the no-results error after three empty reads of the local-search view and
\* an empty read of the map view
C31_Witness ==
    \E j \in DOMAIN run :
        /\ run[j].pending = StealthNoResultsMessage
        /\ job[j].status = "error"
        /\ job[j].error = StealthNoResultsMessage
        /\ run[j].navs = {"local", "map"}
        /\ run[j].i = 2

C33_CompleteJobFields ==
    /\ \A j \in DOMAIN job :
          job[j].status = "complete" =>
              /\ job[j].filePath # null
              /\ job[j].progress = 100
              /\ job[j].error = null
              /\ job[j].resultCount = Len(job[j].results)
    /\ \A id \in jobs :
          /\ DownloadResponse(id).code = 200 <=> job[id].status = "complete"
          /\ job[id].status = "complete" => DownloadResponse(id).body = OutputPath(id)

\* the report of a complete job has been downloaded
C33_Witness ==
    \E j \in jobs :
        /\ job[j].status = "complete"
        /\ job[j].resultCount = 1
        /\ resp.op = "download" /\ resp.id = j
        /\ resp.code = 200 /\ resp.body = job[j].filePath

\* the statuses a status lookup can answer with
ObservableStatuses == {"scraping", "generating", "complete", "error"}

\* C34: a status lookup never answers starting or validating: whenever a
\* request can be served, every job of the store is in status scraping,
\* generating, complete or error, and so is every 200 answer of the status
\* route, although each job was assigned starting first and each job that
\* reached generating was assigned validating before.
C34_ObservableStatuses ==
    /\ \A id \in RequestIds :
          StatusResponse(id).code = 200 => StatusResponse(id).body \in ObservableStatuses
    /\ resp.op = "status" /\ resp.code = 200 => resp.body \in ObservableStatuses
    /\ \A j \in DOMAIN job :
          /\ hist[j].status[1] = "starting"
          /\ job[j].status \in {"generating", "complete"} =>
                \E k \in 1..Len(hist[j].status) : hist[j].status[k] = "validating"

\* a lookup answered generating for a job that had been starting and
\* validating
C34_Witness ==
    \E j \in jobs :
        /\ resp.op = "status" /\ resp.id = j /\ resp.code = 200
        /\ resp.body = "generating"
        /\ hist[j].status = <<"starting", "scraping", "validating", "generating">>

\* C35 as stated: every job in status complete has resultCount >= 1.
C35_Original ==
    \A j \in DOMAIN job : job[j].status = "complete" => job[j].resultCount >= 1

\* C35: every job in status complete got at least one record from the
\* engine, and its resultCount is the number of records validation kept:
\* 0 exactly if every record the engine returned lacks a name or an address.
C35_CompleteAfterValidation ==
    \A j \in DOMAIN job :
        job[j].status = "complete" =>
            LET rawResults == run[j].finalResults
            IN  /\ Len(rawResults) >= 1
                /\ job[j].resultCount = Len(validateAndClean(rawResults))
                /\ job[j].resultCount = 0 <=>
                      \A k \in 1..Len(rawResults) : ~IsComplete(rawResults[k])

\* a complete job with two candidates, neither with an address, and no result
C35_Witness ==
    \E j \in DOMAIN job :
        /\ job[j].status = "complete"
        /\ job[j].resultCount = 0
        /\ job[j].results = <<>>
        /\ Len(run[j].finalResults) = 2
        /\ \A k \in 1..2 : run[j].finalResults[k].address = <<>>

\* C36: in the page at most one polling timer is active at any time, the
\* one kept in pollInterval; a poll that fails or is answered complete or
\* error leaves no timer active; and no status request is issued for a job
\* one of whose polls has failed or been answered complete or error.
C36_OnePollingTimer ==
    /\ [](/\ Cardinality(page.timers) <= 1
          /\ page.timers = {page.pollInterval} \ {0})
    /\ [][/\ \A id \in BagToSet(page.polls) : \A answer \in StatusAnswers(id) :
                PollReturns(id, answer) /\ EndsPolling(answer) => page'.timers = {}
          /\ \A id \in BagToSet(page'.polls) :
                CopiesIn(id, page'.polls) > CopiesIn(id, page.polls) => id \notin page.ended]_vars

\* the poll of job 1 was answered complete while a second request for it was
\* in flight: its timer is gone, its results are shown
C36_Witness ==
    /\ page.ended = {1}
    /\ page.currentJobId = 1
    /\ page.timers = {}
    /\ page.polls = SetToBag({1})
    /\ page.card = "results" /\ page.resultsOf = 1

\* C37: after resetToForm, while no job is current and the form is shown,
\* the answer to a status request that was in flight and a showResults
\* call that was pending change neither the visible card nor the progress
\* display.
C37_StaleAnswersIgnored ==
    [][(/\ page.currentJobId = 0
        /\ page.card = "form"
        /\ \/ BagCardinality(page'.polls) < BagCardinality(page.polls)
           \/ Len(page'.timeouts) < Len(page.timeouts))
       => /\ page'.card = "form"
          /\ page'.progress = page.progress]_vars

\* C38: the scroll loop of the older engine files is left in every run,
\* whatever counts below the cap the page shows from one iteration to the
\* next and even if the end-of-list text never appears.
C38_LegacyLoopTerminates ==
    \A j \in Uuids : <>(~InLegacyLoop(j))

\* C39: no step removes from the store a job whose age is at most the
\* retention window of 1 hour, a sweep leaves every such job in the store
\* with all its fields unchanged, and an id that was removed from the store
\* is never in the store again.
C39_ReaperKeepsYoungJobs ==
    [][/\ \A id \in jobs \ jobs' : now - job[id].createdAt > 3600000
       /\ nextSweep' # nextSweep =>
             \A id \in jobs : now - job[id].createdAt <= 3600000 =>
                 id \in jobs' /\ job'[id] = job[id]
       /\ \A id \in DOMAIN job \ jobs : id \notin jobs']_vars

\* the sweep at 90 minutes has removed the job created at 0 and kept the
\* job created at 30 minutes, whose age was exactly the window
C39_Witness ==
    /\ nextSweep = 4 * 1800000
    /\ \E old \in DOMAIN job \ jobs, young \in jobs :
          /\ job[old].createdAt = 0
          /\ job[young].createdAt = 1800000

====
